---- MODULE Spec2Model ----
(***************************************************************************)
(* Model of igibson/action_primitives/behavior_discrete_action_primitives  *)
(* (class BehaviorActionPrimitives): the primitives are Python generators  *)
(* that a consumer drains one command at a time, applying each command to  *)
(* the host simulation (one tick) before resuming the generator.           *)
(*                                                                         *)
(* A generator runs from one yield to the next without interruption; it is *)
(* modelled in small steps, and the host world only changes in Tick (the   *)
(* consumer applies a yielded command), in the executor's own              *)
(* simulator.step() loops, and between primitives (HostStep, MoveObject).  *)
(*                                                                         *)
(* The utility functions of omnigibson/utils/vr_utils and the loading of   *)
(* VrSettings are applied to inputs drawn from bounded sets (SpecVr).      *)
(***************************************************************************)
EXTENDS Integers, Sequences, FiniteSets, TLC

\* ---------------------------------------------------------------- bounds
\* longest interaction path the arm planner returns
MaxPath == 2
\* most entries set in a binary button vector, longest button-event list
MaxOnes == 2
MaxList == 2
\* largest angle given to calc_z_dropoff
MaxAngle == 2

\* ------------------------------------------------------------- constants
None == "None"

\* env.config["task"]
Tasks == {"putting_away_Halloween_decorations", "installing_a_printer"}

\* task objects (env.task.object_scope) used as targets and as held objects
Objects == {"pumpkin.n.02_1", "printer.n.03_1", "cabinet.n.01_1"}

\* B1KActionPrimitive
B1K_NAVIGATE_TO == 0
B1K_PICK == 1
B1K_PLACE == 2
B1K_TOGGLE == 3
B1K_PULL == 4
B1K_PUSH == 5
B1K_PULL_OPEN == 6
B1K_DUMMY == 10

\* an entry of skill_object_offset_params, by its shape: a flat list of
\* len numbers, or (nested) a list of len lists
Flat(n) == [len |-> n, nested |-> FALSE]
Nested(n) == [len |-> n, nested |-> TRUE]

\* skill_object_offset_params as the module defines it: for each skill id
\* the object names that have an entry, with the shape of the entry
skill_object_offset_params ==
    [s \in 0..9 |->
        CASE s = 0 -> [o \in {"printer.n.03_1", "table.n.02_1",
                              "hamburger.n.01_1", "hamburger.n.01_2",
                              "hamburger.n.01_3", "ashcan.n.01_1",
                              "countertop.n.01_1", "pumpkin.n.02_1",
                              "pumpkin.n.02_2", "cabinet.n.01_1"} |-> Flat(4)]
          [] s = 1 -> [o \in {"printer.n.03_1", "hamburger.n.01_1",
                              "hamburger.n.01_2", "hamburger.n.01_3",
                              "pumpkin.n.02_1", "pumpkin.n.02_2"} |-> Flat(3)]
          [] s = 2 -> [o \in {"table.n.02_1", "ashcan.n.01_1",
                              "cabinet.n.01_1"} |-> Flat(3)]
          [] s = 3 -> [o \in {"printer.n.03_1"} |-> Flat(3)]
          [] s = 4 -> [o \in {"cabinet.n.01_1"} |-> Flat(6)]
          [] s = 5 -> [o \in {"cabinet.n.01_1"} |-> Flat(6)]
          [] s = 6 -> [o \in {"hamburger.n.01_1", "hamburger.n.01_2",
                              "hamburger.n.01_3", "pumpkin.n.02_1",
                              "pumpkin.n.02_2"} |-> Flat(7)]
          [] s = 7 -> [o \in {"ashcan.n.01_1", "cabinet.n.01_1"} |-> Flat(7)]
          [] s = 8 -> [o \in {"cabinet.n.01_1"} |-> Flat(3)]
          [] s = 9 -> [o \in {"cabinet.n.01_1"} |-> Flat(3)]]

\* an entry of an action list: [skill id, target_obj] (apply ignores a
\* third element)
E(s, o) == [skill |-> s, obj |-> o]

\* action_dict: the action list of each activity
action_dict ==
    [t \in {"installing_a_printer", "throwing_away_leftovers",
             "putting_leftovers_away", "putting_away_Halloween_decorations",
             "throwing_away_leftovers_discrete", "room_rearrangement"} |->
        CASE t = "installing_a_printer" ->
               <<E(0, "printer.n.03_1"), E(1, "printer.n.03_1"),
                 E(0, "table.n.02_1"), E(2, "table.n.02_1"),
                 E(3, "printer.n.03_1")>>
          [] t = "throwing_away_leftovers" ->
               <<E(0, "countertop.n.01_1"), E(6, "hamburger.n.01_1"),
                 E(0, "ashcan.n.01_1"), E(7, "ashcan.n.01_1"),
                 E(6, "hamburger.n.01_2"), E(6, "hamburger.n.01_3")>>
          [] t = "putting_leftovers_away" ->
               <<E(0, "pasta.n.02_1"), E(1, "pasta.n.02_1"),
                 E(0, "countertop.n.01_1"), E(2, "countertop.n.01_1"),
                 E(0, "pasta.n.02_2"), E(1, "pasta.n.02_2"),
                 E(0, "countertop.n.01_1"), E(2, "countertop.n.01_1"),
                 E(0, "pasta.n.02_2_3"), E(1, "pasta.n.02_2_3"),
                 E(0, "countertop.n.01_1"), E(2, "countertop.n.01_1"),
                 E(0, "pasta.n.02_2_4"), E(1, "pasta.n.02_2_4"),
                 E(0, "countertop.n.01_1"), E(2, "countertop.n.01_1")>>
          [] t = "putting_away_Halloween_decorations" ->
               <<E(0, "cabinet.n.01_1"), E(4, "cabinet.n.01_1"),
                 E(0, "pumpkin.n.02_1"), E(1, "pumpkin.n.02_1"),
                 E(2, "cabinet.n.01_1"), E(0, "pumpkin.n.02_2"),
                 E(1, "pumpkin.n.02_2"), E(5, "cabinet.n.01_1")>>
          [] t = "throwing_away_leftovers_discrete" ->
               <<E(0, "countertop.n.01_1"), E(0, "countertop.n.01_1"),
                 E(0, "countertop.n.01_1"), E(6, "hamburger.n.01_1"),
                 E(0, "ashcan.n.01_1"), E(7, "ashcan.n.01_1"),
                 E(6, "hamburger.n.01_2"), E(6, "hamburger.n.01_3")>>
          [] t = "room_rearrangement" ->
               <<E(0, "cabinet.n.01_1"), E(4, "cabinet.n.01_1"),
                 E(0, "pumpkin.n.02_1"), E(1, "pumpkin.n.02_1"),
                 E(7, "cabinet.n.01_1"), E(0, "pumpkin.n.02_2"),
                 E(6, "pumpkin.n.02_2"), E(5, "cabinet.n.01_1")>>]

\* self.action_list, as __init__ chooses it (the activity name is taken
\* to be the configured task)
action_list(t) ==
    IF t = "throwing_away_leftovers"
    THEN action_dict["throwing_away_leftovers_discrete"]
    ELSE action_dict[t]

\* self.controller_functions: the handler registered for each skill id
controller_functions ==
    [s \in {B1K_NAVIGATE_TO, B1K_PICK, B1K_PLACE, B1K_TOGGLE, B1K_PULL,
             B1K_PUSH, B1K_PULL_OPEN, B1K_DUMMY} |->
        CASE s = B1K_NAVIGATE_TO -> "navigate"
          [] s = B1K_PICK -> "pick"
          [] s = B1K_PLACE -> "place"
          [] s = B1K_TOGGLE -> "toggle"
          [] s = B1K_PULL -> "pull"
          [] s = B1K_PUSH -> "push"
          [] s = B1K_PULL_OPEN -> "pull_open"
          [] s = B1K_DUMMY -> "dummy"]

\* params[:3] of the pick entries of the modelled objects (dx, dy, dz), in
\* tenths of a metre
pick_offset ==
    [o \in {"printer.n.03_1", "pumpkin.n.02_1"} |->
        IF o = "printer.n.03_1" THEN <<-2, 0, 2>> ELSE <<0, 0, -1>>]

\* self.default_direction, the default hit normal
default_direction == <<0, 0, -1>>

\* robot.finger_lengths[arm], in tenths of a metre
finger_size == 1

\* object orientations: quarter turns about the vertical axis (0: identity)
Rotations == {0, 1}

\* the zero-length quaternion, which is no orientation
Degenerate == 2

\* mat = quat2mat(obj_rot_XYZW): the call is not guarded; quat2mat comes from
\* igibson.utils.transform_utils, where a normalising conversion raises a
\* ValueError on a zero-length quaternion and a non-normalising one returns
\* a matrix (the identity), so both outcomes are kept
quat2mat(r) == IF r = Degenerate THEN {"ValueError", "mat"} ELSE {"mat"}

\* quat2mat(obj_rot_XYZW) @ v
quat2mat_apply(r, v) == IF r = 1 THEN <<0 - v[2], v[1], v[3]>> ELSE v

\* object positions, in tenths of a metre
Positions == {<<0, 0, 0>>, <<1, 0, 0>>, <<2, 0, 0>>, <<2, -2, 0>>, <<0, 1, 1>>}
NoPos == <<9, 9, 9>>

\* moved_distance_threshold = 1e-1, in tenths of a metre
moved_distance_threshold == 1

\* pre_grasping_distance = 0.1 (_pick) and pre_toggling_distance = 0.0
\* (_toggle), in tenths of a metre
pre_grasping_distance == 1
pre_toggling_distance == 0

\* abstract values of robot.get_joint_positions(); 0 is kept for np.zeros
JointPositions == {1, 2}

\* jnt.lower_limit and jnt.upper_limit of an object's joint_0, in tenths
lower_limit == 0
upper_limit == 3

\* a planner result: None, or a list of waypoints (waypoint i is the i-th
\* arm configuration of the path)
PathNone == [none |-> TRUE, wps |-> <<>>]
Path(n) == [none |-> FALSE, wps |-> [k \in 1..n |-> k]]
BasePlans == {PathNone, Path(0), Path(1)}
PrePaths == {PathNone, Path(0), Path(1)}
InteractionPaths == {PathNone} \cup {Path(n) : n \in 0..MaxPath}

VARIABLES
    \* ---- BehaviorActionPrimitives (self)
    task,              \* self.env.config["task"]
    is_grasping,       \* self.is_grasping
    fast_execution,    \* self.fast_execution
    initial_pos_dict,  \* self.initial_pos_dict (NoPos: key absent)
    \* ---- host simulator / robot
    obj_in_hand,       \* robot._ag_obj_in_hand[arm]
    contact,           \* len(robot._find_gripper_contacts(arm)[0]) != 0
    joint_pos,         \* robot.get_joint_positions()
    obj_pos,           \* states[Pose].get_value()[0] of every object
    joint_0,           \* joints['joint_0'] position of the articulated objects
    \* ---- the running generator
    prim,              \* primitive of the current (or last) invocation
    target,            \* object_name
    pc,                \* position of the generator
    yielded,           \* a command is out, waiting for the consumer's tick
    i,                 \* loop index of the current for loop
    action,            \* full_body_action / action / still_action local
    ee_call,           \* which _execute_ee_path call is running
    base_plan,         \* plan (in _navigate_to)
    pre_path,          \* pre_pick_path / pre_toggle_path
    interaction_path,  \* interaction_pick_path / toggle_interaction_path
    \* ---- what the consumer and the logs observe of the invocation
    emitted,           \* commands yielded so far by this invocation
                       \* (phase, arm and gripper entries)
    out,               \* the full command yielded last
    result,            \* "none", "running", "done" or the error raised
    err_object,        \* object name carried by the ActionPrimitiveError
    planner_calls,     \* planner invocations of this invocation
    warned,            \* logger.warning("Robot already grasping ...")
    first_contact,     \* tick of the stop-on-contact call at which contact
                       \* first was present (0: at entry, -1: never so far)
    held0,             \* what the hand held when the invocation started
    nav_pos,           \* position of the target read by the last navigation,
                       \* kept while navigations to that target follow
                       \* each other (NoPos otherwise)
    ee_outcome,        \* "none", "running", "returned", "raised"
    grasp_outcome,     \* same for _execute_grasp / _execute_ungrasp
    \* ---- module-level table and object orientation
    offset_params,     \* the dict skill_object_offset_params at run time
    obj_rot,           \* states[Pose].get_value()[1] of every object
    \* ---- more of what is observed of the invocation
    ee_still,          \* the still action _execute_ee_path captured at entry
    sim_steps,         \* simulator.step() calls made by the executor itself
    pick_place_pos,    \* the position _pick handed to plan_ee_pick
    objects_to_ignore, \* the list _navigate_to handed to plan_base_motion
    \* ---- vr_utils: the function applied next and its arguments / results
    vr_pc,             \* "none", the call to make, or how the calls ended
    bin_in,            \* the binary vector a round trip started from
    bdata_in,          \* the button-event list a round trip started from
    bin_events,        \* bin_events
    button_press_data, \* bdata / button_press_data
    theta,             \* arguments of calc_z_dropoff
    t_min,
    t_max,
    z_mult,            \* its result, as a fraction
    vr_config,         \* what parse_config(self.vr_config_path) returns
    settings,          \* the fields of the VrSettings object
    \* ---- object_states: the Soaked state of one object and its world
    value,             \* Soaked.value
    body_ids,          \* self.obj.get_body_ids()
    contact_points,    \* bodyUniqueIdB of the contact points of those bodies
    water_source_objs, \* per water-source object, its active particles
                       \* (each the set of its body ids)
    soaked_op,         \* the Soaked method called last ("none": none yet)
    soaked_result,     \* how that call ended: "done" or "NameError"
    dumped,            \* what _dump_state returned last
    serialized,        \* what _serialize made of it
    deserialized       \* what _deserialize made of that: <<state, length>>

selfVars == <<task, is_grasping, fast_execution, initial_pos_dict>>
hostVars == <<obj_in_hand, contact, joint_pos, obj_pos, joint_0>>
genVars == <<prim, target, pc, yielded, i, action, ee_call,
             base_plan, pre_path, interaction_path>>
obsVars == <<emitted, out, result, err_object, planner_calls, warned,
             first_contact, held0, nav_pos, ee_outcome, grasp_outcome>>
vrVars == <<vr_pc, bin_in, bdata_in, bin_events, button_press_data, theta,
           t_min, t_max, z_mult, vr_config, settings>>
soakVars == <<value, body_ids, contact_points, water_source_objs, soaked_op,
             soaked_result, dumped, serialized, deserialized>>
moreVars == <<offset_params, obj_rot, ee_still, sim_steps, pick_place_pos,
             objects_to_ignore, vrVars, soakVars>>
primVars == <<selfVars, hostVars, genVars, obsVars, offset_params, obj_rot,
             ee_still, sim_steps, pick_place_pos, objects_to_ignore>>
vars == <<selfVars, hostVars, genVars, obsVars, moreVars>>

\* the modelled objects that can be picked up and carried (those with a
\* pick entry);
\* the hand holds one of them or nothing
Graspable == DOMAIN skill_object_offset_params[B1K_PICK] \cap Objects
\* the objects of the scene that the action lists pull and push: the ones
\* whose joints have a joint_0
Articulated == DOMAIN skill_object_offset_params[B1K_PULL] \cap Objects
ObjOrNone == Graspable \cup {None}

\* ----------------------------------------------------------- commands
\* A command is the full-body action vector: the value written at the arm
\* controller's indices (0: the captured joint position, k > 0: waypoint
\* k), at the gripper's index, and at the other position-controlled groups
\* (hold; 0 for a vector of zeros).  The history keeps, of each command,
\* the phase that yielded it, its arm and gripper entries, and how many
\* simulator steps the executor itself had made when it was yielded.
Cmd(ph, a) ==
    [phase |-> ph, arm |-> a.arm, gripper |-> a.gripper, steps |-> sim_steps]

\* _get_still_action
_get_still_action ==
    [arm |-> 0, gripper |-> IF is_grasping THEN -1 ELSE 0, hold |-> joint_pos]

\* np.zeros(self.robot.action_dim)
ZeroAction == [arm |-> 0, gripper |-> 0, hold |-> 0]

CountPhase(ph) == Cardinality({k \in 1..Len(emitted) : emitted[k].phase = ph})
PhaseCmds(ph) == SelectSeq(emitted, LAMBDA c : c.phase = ph)

\* ------------------------------------------------------------ vr_utils
\* VR_BUTTON_COMBOS: every (button_idx, press_id) combination
VR_BUTTON_COMBOS ==
    << <<0, 0>>, <<0, 1>>, <<1, 0>>, <<1, 1>>, <<2, 0>>, <<2, 1>>,
       <<3, 0>>, <<3, 1>>, <<4, 0>>, <<4, 1>>, <<5, 0>>, <<5, 1>>,
       <<6, 0>>, <<6, 1>>, <<7, 0>>, <<7, 1>>, <<31, 0>>, <<31, 1>>,
       <<32, 0>>, <<32, 1>>, <<33, 0>>, <<33, 1>>, <<34, 0>>, <<34, 1>>,
       <<35, 0>>, <<35, 1>>, <<36, 0>>, <<36, 1>> >>
VR_BUTTON_COMBO_NUM_mut == Len(VR_BUTTON_COMBOS) - 1
VR_BUTTON_COMBO_NUM == 28

\* what a function returned, or the exception it raised
Ok(v) == [err |-> "none", val |-> v]
Err(e) == [err |-> e, val |-> <<>>]

\* VR_BUTTON_COMBOS.index(d), counted from 0 (-1: d is not in the list and
\* index raises ValueError)
index(d) ==
    IF \E k \in 1..Len(VR_BUTTON_COMBOS) : VR_BUTTON_COMBOS[k] = d
    THEN (CHOOSE k \in 1..Len(VR_BUTTON_COMBOS) :
             /\ VR_BUTTON_COMBOS[k] = d
             /\ \A j \in 1..(k - 1) : VR_BUTTON_COMBOS[j] # d) - 1
    ELSE -1

\* for d in bdata: event_idx = VR_BUTTON_COMBOS.index(d);
\*                 bin_events[event_idx] = 1
RECURSIVE SetEvents(_, _, _)
SetEvents(bdata, k, bin) ==
    IF k > Len(bdata) THEN Ok(bin)
    ELSE LET event_idx == index(bdata[k])
         IN IF event_idx = -1 THEN Err("ValueError")
            ELSE IF event_idx >= Len(bin) THEN Err("IndexError")
            ELSE SetEvents(bdata, k + 1, [bin EXCEPT ![event_idx + 1] = 1])

\* convert_button_data_to_binary: bin_events = [0] * VR_BUTTON_COMBO_NUM,
\* then the loop over bdata
convert_button_data_to_binary(bdata) ==
    SetEvents(bdata, 1, [k \in 1..VR_BUTTON_COMBO_NUM |-> 0])

\* for i in range(VR_BUTTON_COMBO_NUM): if bin_events[i] == 1:
\*     button_press_data.append(VR_BUTTON_COMBOS[i])
RECURSIVE AppendEvents(_, _, _)
AppendEvents(bin, idx, data) ==
    IF idx >= VR_BUTTON_COMBO_NUM THEN Ok(data)
    ELSE IF idx >= Len(bin) THEN Err("IndexError")
    ELSE IF bin[idx + 1] = 1
         THEN IF idx >= Len(VR_BUTTON_COMBOS) THEN Err("IndexError")
              ELSE AppendEvents(bin, idx + 1,
                                Append(data, VR_BUTTON_COMBOS[idx + 1]))
         ELSE AppendEvents(bin, idx + 1, data)

\* convert_binary_to_button_data
convert_binary_to_button_data(bin) == AppendEvents(bin, 0, <<>>)

\* a number as a fraction (the floats 0.0 and 1.0, and the quadratic)
Frac(n, d) == [num |-> n, den |-> d]
FracLeq(a, b) == a.num * b.den <= b.num * a.den
FracEq(a, b) == a.num * b.den = b.num * a.den

\* calc_z_dropoff(theta, t_min, t_max)
calc_z_dropoff(th, tmin, tmax) ==
    IF tmin < th /\ th < tmax
    THEN LET d == (tmin - tmax) * (tmin - tmax)
         IN Frac(0 - th * th + 2 * tmax * th + (tmin * tmin - 2 * tmin * tmax),
                 d)
    ELSE IF th < tmin THEN Frac(0, 1)
    ELSE Frac(1, 1)

\* bool(self.torso_tracker_serial)
bool(serial) == serial \notin {None, ""}

\* gen_button_action_map: button_action_map[tuple(v)] = k for every item of
\* action_button_map, a later item replacing an earlier one with its tuple
gen_button_action_map(abm) ==
    [t \in {abm[j][2] : j \in 1..Len(abm)} |->
        abm[CHOOSE j \in 1..Len(abm) :
               /\ abm[j][2] = t
               /\ \A k \in (j + 1)..Len(abm) : abm[k][2] # t][1]]

\* binary vectors of the length of the table with at most n entries set
RECURSIVE OnesSets(_)
OnesSets(n) ==
    IF n = 0 THEN {{}}
    ELSE OnesSets(n - 1) \cup
         {S \cup {x} : S \in OnesSets(n - 1), x \in 1..Len(VR_BUTTON_COMBOS)}
BinVectors ==
    {[k \in 1..Len(VR_BUTTON_COMBOS) |-> IF k \in S THEN 1 ELSE 0] :
        S \in OnesSets(MaxOnes)}

\* lists of button events of the table, repeated and in any order
ButtonLists ==
    UNION {[1..n -> {VR_BUTTON_COMBOS[k] : k \in 1..Len(VR_BUTTON_COMBOS)}] :
              n \in 0..MaxList}

Angles == (0 - MaxAngle)..MaxAngle

\* the contents of vr_config.yaml: the shared settings load_vr_config
\* checks or combines, the current device and the device settings, each of
\* which carries an action_button_map (a list of (action, button) items)
ActionButtonMaps ==
    { << <<"reset_agent", <<1, 0>> >>, <<"overlay_toggle", <<2, 0>> >> >>,
      << <<"reset_agent", <<1, 0>> >>, <<"overlay_toggle", <<1, 0>> >> >> }
DeviceSettings ==
    {[k \in K |-> m] : K \in {{"HTC_VIVE", "OCULUS", "OTHER_VR"},
                             {"HTC_VIVE", "OCULUS"}},
                       m \in ActionButtonMaps}
VrConfigs ==
    [movement_controller : {"left", "right", "both"},
     relative_movement_device : {"hmd", "torso_tracker"},
     use_tracked_body : BOOLEAN,
     torso_tracker_serial : {None, "", "LHR-1"},
     current_device : {"HTC_VIVE", "OCULUS", "INDEX"},
     device_settings : DeviceSettings]

\* a VrSettings object none of whose fields is assigned yet
Unset == "unset"
NoSettings ==
    [movement_controller |-> Unset, relative_movement_device |-> Unset,
     use_tracked_body |-> Unset, torso_tracker_serial |-> Unset,
     using_tracked_body |-> Unset, curr_device |-> Unset,
     button_action_map |-> Unset]
NoConfig == [current_device |-> Unset]

\* no function of vr_utils is being applied
VrIdle ==
    /\ vr_pc = "none"
    /\ bin_in = <<>>
    /\ bdata_in = <<>>
    /\ bin_events = <<>>
    /\ button_press_data = <<>>
    /\ theta = 0
    /\ t_min = 0
    /\ t_max = 0
    /\ z_mult = Frac(0, 1)
    /\ vr_config = NoConfig
    /\ settings = NoSettings

\* Soaked.__init__ (self.value = False) on an object without bodies, in a
\* scene without water sources; nothing dumped yet
SoakedIdle ==
    /\ value = FALSE
    /\ body_ids = {}
    /\ contact_points = {}
    /\ water_source_objs = <<>>
    /\ soaked_op = "none"
    /\ soaked_result = "none"
    /\ dumped = <<>>
    /\ serialized = <<>>
    /\ deserialized = <<>>

\* the state after construction, in a world where the objects have one of
\* the given positions and orientations
InitPrimitives(tasks, positions, rotations) ==
    /\ task \in tasks
    /\ is_grasping = FALSE
    /\ fast_execution = FALSE
    /\ initial_pos_dict = [o \in Objects |-> NoPos]
    /\ obj_in_hand = None
    /\ contact = FALSE
    /\ joint_pos = 1
    /\ obj_pos \in positions
    /\ joint_0 = [o \in Articulated |-> lower_limit]
    /\ prim = "none"
    /\ target = None
    /\ pc = "idle"
    /\ yielded = FALSE
    /\ i = 0
    /\ action = ZeroAction
    /\ ee_call = "none"
    /\ base_plan = PathNone
    /\ pre_path = PathNone
    /\ interaction_path = PathNone
    /\ emitted = <<>>
    /\ out = ZeroAction
    /\ result = "none"
    /\ err_object = None
    /\ planner_calls = 0
    /\ warned = FALSE
    /\ first_contact = -1
    /\ held0 = None
    /\ nav_pos = NoPos
    /\ ee_outcome = "none"
    /\ grasp_outcome = "none"
    /\ offset_params =
         IF task = "throwing_away_leftovers"
         THEN [skill_object_offset_params EXCEPT
                  ![B1K_NAVIGATE_TO]["countertop.n.01_1"] = Nested(3)]
         ELSE skill_object_offset_params
    /\ obj_rot \in rotations
    /\ ee_still = ZeroAction
    /\ sim_steps = 0
    /\ pick_place_pos = NoPos
    /\ objects_to_ignore = <<>>

InitWorld(tasks, positions, rotations) ==
    InitPrimitives(tasks, positions, rotations) /\ VrIdle /\ SoakedIdle

\* the world the objects start in: the pumpkin one step along x, the
\* printer turned a quarter
StartPos == [o \in Objects |->
               IF o = "pumpkin.n.02_1" THEN <<1, 0, 0>> ELSE <<0, 0, 0>>]
StartRot == [o \in Objects |-> IF o = "printer.n.03_1" THEN 1 ELSE 0]

InitTask(tasks) == InitWorld(tasks, {StartPos}, {StartRot})

\* after construction, for the task whose navigation targets are checked
Init == InitTask({"putting_away_Halloween_decorations"})

\* ------------------------------------------------------------ helpers
\* the generator yields command c and is suspended
Yield(ph, a) ==
    /\ emitted' = Append(emitted, Cmd(ph, a))
    /\ out' = a
    /\ yielded' = TRUE

\* the generator raises an error / returns: the invocation is over
Raise_mut(reason, obj) ==
    /\ pc' = "grasp_entry"
    /\ result' = reason
    /\ err_object' = obj

Raise(reason, obj) ==
    /\ pc' = "idle"
    /\ result' = reason
    /\ err_object' = obj

Return ==
    /\ pc' = "idle"
    /\ result' = "done"
    /\ UNCHANGED err_object

\* the host world moves on: one or more simulation steps
HostChanges ==
    /\ obj_in_hand' \in ObjOrNone
    /\ contact' \in BOOLEAN
    /\ joint_pos' \in JointPositions
    /\ UNCHANGED <<obj_pos, joint_0>>

\* controller_functions: the handler each primitive starts in
StartLabel ==
    [p \in {"navigate", "pick", "place", "toggle", "pull", "push",
             "pull_open", "dummy"} |->
        CASE p = "navigate" -> "nav_start"
          [] p = "pick" -> "pick_start"
          [] p = "place" -> "place_start"
          [] p = "toggle" -> "toggle_start"
          [] p = "pull" -> "pull_start"
          [] p = "push" -> "push_start"
          [] p = "pull_open" -> "pull_open_start"
          [] p = "dummy" -> "dummy_start"]
Primitives == DOMAIN StartLabel

\* ------------------------------------------------- consumer and the host
\* apply(): the generator of a primitive is created; nothing runs yet
Apply(p, obj) ==
    /\ pc = "idle"
    /\ prim' = p
    /\ target' = obj
    /\ pc' = StartLabel[p]
    /\ yielded' = FALSE
    /\ i' = 0
    /\ action' = ZeroAction
    /\ ee_call' = "none"
    /\ base_plan' = PathNone
    /\ pre_path' = PathNone
    /\ interaction_path' = PathNone
    /\ emitted' = <<>>
    /\ out' = ZeroAction
    /\ result' = "running"
    /\ err_object' = None
    /\ planner_calls' = 0
    /\ warned' = FALSE
    /\ first_contact' = -1
    /\ held0' = obj_in_hand
    /\ nav_pos' = IF p = "navigate" /\ prim = "navigate" /\ target = obj
                  THEN nav_pos ELSE NoPos
    /\ ee_outcome' = "none"
    /\ grasp_outcome' = "none"
    /\ ee_still' = ZeroAction
    /\ sim_steps' = 0
    /\ pick_place_pos' = NoPos
    /\ objects_to_ignore' = <<>>
    /\ UNCHANGED <<selfVars, hostVars>>
    /\ UNCHANGED <<offset_params, obj_rot, vrVars, soakVars>>

\* the consumer applies the yielded command: one simulation tick
Tick ==
    /\ yielded
    /\ yielded' = FALSE
    /\ HostChanges
    /\ first_contact' =
         IF ee_outcome = "running" /\ first_contact = -1 /\ contact'
         THEN CountPhase(ee_call) ELSE first_contact
    /\ UNCHANGED <<selfVars, prim, target, pc, i, action, ee_call, base_plan,
                   pre_path, interaction_path, emitted, out, result, err_object,
                   planner_calls, warned, held0, nav_pos, ee_outcome, grasp_outcome>>
    /\ UNCHANGED <<offset_params, obj_rot, ee_still, sim_steps, pick_place_pos,
                   objects_to_ignore, vrVars, soakVars>>

\* the world between two primitives (an object is dropped or handed over,
\* something touches the gripper, the joints drift)
HostStep ==
    /\ pc = "idle"
    /\ HostChanges
    /\ UNCHANGED <<selfVars, genVars, obsVars>>
    /\ UNCHANGED <<offset_params, obj_rot, ee_still, sim_steps, pick_place_pos,
                   objects_to_ignore, vrVars, soakVars>>

\* an object is moved between two primitives
MoveObject(o, p) ==
    /\ pc = "idle"
    /\ obj_pos[o] # p
    /\ obj_pos' = [obj_pos EXCEPT ![o] = p]
    /\ UNCHANGED <<selfVars, obj_in_hand, contact, joint_pos, joint_0, genVars,
                   obsVars>>
    /\ UNCHANGED <<offset_params, obj_rot, ee_still, sim_steps, pick_place_pos,
                   objects_to_ignore, vrVars, soakVars>>

\* the caller sets the public attribute fast_execution between primitives
SetFastExecution(b) ==
    /\ pc = "idle"
    /\ fast_execution # b
    /\ fast_execution' = b
    /\ UNCHANGED <<task, is_grasping, initial_pos_dict, hostVars, genVars, obsVars>>
    /\ UNCHANGED <<offset_params, obj_rot, ee_still, sim_steps, pick_place_pos,
                   objects_to_ignore, vrVars, soakVars>>

\* ------------------------------------------------------- _navigate_to
Abs(x) == IF x < 0 THEN 0 - x ELSE x

\* np.abs(np.sum(initial - current))
moved_distance(a, b) == Abs((a[1] - b[1]) + (a[2] - b[2]) + (a[3] - b[3]))

\* object names whose pose is checked
CheckedObjects == {"pumpkin.n.02_1", "pumpkin.n.02_2"}

\* parameter lookup and the moved-object precondition
NavigateStart ==
    /\ pc = "nav_start" /\ ~yielded
    /\ IF target \notin DOMAIN offset_params[B1K_NAVIGATE_TO]
       THEN /\ Raise("KeyError", None)
            /\ UNCHANGED initial_pos_dict
       ELSE IF /\ task = "putting_away_Halloween_decorations"
               /\ target \in CheckedObjects
            THEN IF initial_pos_dict[target] = NoPos
                 THEN /\ initial_pos_dict' =
                           [initial_pos_dict EXCEPT ![target] = obj_pos[target]]
                      /\ pc' = "nav_plan"
                      /\ UNCHANGED <<result, err_object>>
                 ELSE /\ UNCHANGED initial_pos_dict
                      /\ IF moved_distance(initial_pos_dict[target], obj_pos[target])
                              > moved_distance_threshold
                         THEN Raise("PRE_CONDITION_ERROR", target)
                         ELSE /\ pc' = "nav_plan"
                              /\ UNCHANGED <<result, err_object>>
            ELSE /\ pc' = "nav_plan"
                 /\ UNCHANGED <<initial_pos_dict, result, err_object>>
    /\ nav_pos' = IF target \in DOMAIN offset_params[B1K_NAVIGATE_TO]
                  THEN obj_pos[target] ELSE NoPos
    /\ UNCHANGED <<task, is_grasping, fast_execution, hostVars, prim, target,
                   yielded, i, action, ee_call, base_plan, pre_path,
                   interaction_path, emitted, out, planner_calls, warned,
                   first_contact, held0, ee_outcome, grasp_outcome>>
    /\ UNCHANGED <<offset_params, obj_rot, ee_still, sim_steps, pick_place_pos,
                   objects_to_ignore, vrVars, soakVars>>

\* not (plan is not None and len(plan) > 0)
NoBasePath_mut(plan) == plan.none
NoBasePath(plan) == plan.none \/ Len(plan.wps) = 0

\* objects_to_ignore = []; if self.is_grasping: objects_to_ignore =
\* [self.robot._ag_obj_in_hand[self.arm]]
IgnoreList == IF is_grasping THEN <<obj_in_hand>> ELSE <<>>

\* plan_base_motion, the check of the plan and the still command
NavigatePlan ==
    /\ pc = "nav_plan" /\ ~yielded
    /\ \E mat \in quat2mat(obj_rot[target]), plan \in BasePlans :
         IF mat = "ValueError"
         THEN /\ Raise("ValueError", None)
              /\ UNCHANGED <<base_plan, planner_calls, objects_to_ignore,
                             action, emitted, out, yielded>>
         ELSE /\ base_plan' = plan
              /\ planner_calls' = planner_calls + 1
              /\ objects_to_ignore' = IgnoreList
              /\ IF ~NoBasePath(plan)
                 THEN /\ action' = _get_still_action
                      /\ Yield("navigate", action')
                      /\ pc' = "nav_settle"
                      /\ UNCHANGED <<result, err_object>>
                 ELSE /\ Raise("PLANNING_ERROR", target)
                      /\ UNCHANGED <<action, emitted, out, yielded>>
    /\ UNCHANGED <<selfVars, hostVars, prim, target, i, ee_call, pre_path,
                   interaction_path, warned, first_contact, held0, nav_pos, ee_outcome,
                   grasp_outcome>>
    /\ UNCHANGED <<offset_params, obj_rot, ee_still, sim_steps, pick_place_pos,
                   vrVars, soakVars>>

\* for i in range(10): self.env.simulator.step()
NavigateSettle ==
    /\ pc = "nav_settle" /\ ~yielded
    /\ HostChanges
    /\ sim_steps' = sim_steps + 10
    /\ Return
    /\ UNCHANGED <<selfVars, prim, target, yielded, i, action, ee_call,
                   base_plan, pre_path, interaction_path, emitted, out,
                   planner_calls, warned, first_contact, held0, nav_pos, ee_outcome,
                   grasp_outcome>>
    /\ UNCHANGED <<offset_params, obj_rot, ee_still, pick_place_pos,
                   objects_to_ignore, vrVars, soakVars>>

\* --------------------------------------------------- _execute_ee_path
\* the arguments of each call of _execute_ee_path
stop_on_contact_mut(call) == call = "pick_interaction"
stop_on_contact(call) == call \in {"pick_interaction", "toggle_interaction"}
reverse_path_mut(call) == FALSE
reverse_path(call) == call = "pick_retract"
while_grasping_mut(call) == TRUE
while_grasping(call) == call = "pick_retract"

\* reversed(path)
Reverse(s) == [k \in 1..Len(s) |-> s[Len(s) + 1 - k]]

\* where the caller continues after the call returns
AfterEE_mut(call) ==
    CASE call = "pick_interaction" -> "pick_settle"
      [] call = "pick_retract" -> "pick_settle2"
      [] call = "toggle_interaction" -> "toggle_retract"
AfterEE(call) ==
    CASE call = "pick_interaction" -> "grasp_entry"
      [] call = "pick_retract" -> "pick_settle2"
      [] call = "toggle_interaction" -> "toggle_retract"

\* the call itself: full_body_action = self._get_still_action()
EECall(call) ==
    /\ ee_call' = call
    /\ action' = _get_still_action
    /\ ee_still' = _get_still_action
    /\ i' = 0
    /\ pc' = "ee_loop"
    /\ IF stop_on_contact(call)
       THEN /\ ee_outcome' = "running"
            /\ first_contact' = IF contact THEN 0 ELSE -1
       ELSE UNCHANGED <<ee_outcome, first_contact>>

\* stop_on_contact and len(self.robot._find_gripper_contacts(...)[0]) != 0
ContactDetected_mut(call) == stop_on_contact(call) /\ contact /\ i > 0
ContactDetected(call) == stop_on_contact(call) /\ contact

\* one iteration of the for loop, or the code after the loop
EEPathStep ==
    /\ pc = "ee_loop" /\ ~yielded
    /\ LET path == IF reverse_path(ee_call)
                   THEN Reverse(interaction_path.wps)
                   ELSE interaction_path.wps
       IN IF i < Len(path)
          THEN IF ContactDetected(ee_call)
               THEN \* contact detected: return
                    /\ pc' = AfterEE(ee_call)
                    /\ ee_outcome' = "returned"
                    /\ UNCHANGED <<action, emitted, out, yielded, i, result, err_object>>
               ELSE /\ action' = [action EXCEPT
                                    !.arm = path[i + 1],
                                    !.gripper = IF while_grasping(ee_call)
                                                THEN -1 ELSE @]
                    /\ Yield(ee_call, action')
                    /\ i' = i + 1
                    /\ UNCHANGED <<pc, ee_outcome, result, err_object>>
          ELSE IF stop_on_contact(ee_call)
               THEN /\ Raise("EXECUTION_ERROR", None)
                    /\ ee_outcome' = "raised"
                    /\ UNCHANGED <<action, emitted, out, yielded, i>>
               ELSE /\ pc' = AfterEE(ee_call)
                    /\ UNCHANGED <<action, emitted, out, yielded, i, ee_outcome,
                                   result, err_object>>
    /\ UNCHANGED <<selfVars, hostVars, prim, target, ee_call, base_plan,
                   pre_path, interaction_path, planner_calls, warned,
                   first_contact, held0, nav_pos, grasp_outcome>>
    /\ UNCHANGED <<offset_params, obj_rot, ee_still, sim_steps, pick_place_pos,
                   objects_to_ignore, vrVars, soakVars>>

\* ------------------------------------------ _execute_grasp / _execute_ungrasp
\* grasping_steps = 5 if self.fast_execution else 9
grasping_steps_mut == IF fast_execution THEN 5 ELSE 10
grasping_steps == IF fast_execution THEN 5 ELSE 9

\* ungrasping_steps = 5 if self.fast_execution else 9
ungrasping_steps_mut == IF fast_execution THEN 9 ELSE 5
ungrasping_steps == IF fast_execution THEN 5 ELSE 9

\* the code of _execute_grasp before its loop
GraspEntry ==
    /\ pc = "grasp_entry" /\ ~yielded
    /\ action' = [_get_still_action EXCEPT !.gripper = -1]
    /\ i' = 0
    /\ grasp_outcome' = "running"
    /\ pc' = "grasp_loop"
    /\ UNCHANGED <<selfVars, hostVars, prim, target, yielded, ee_call,
                   base_plan, pre_path, interaction_path, emitted, out, result,
                   err_object, planner_calls, warned, first_contact, held0, nav_pos, ee_outcome>>
    /\ UNCHANGED <<offset_params, obj_rot, ee_still, sim_steps, pick_place_pos,
                   objects_to_ignore, vrVars, soakVars>>

\* one iteration of the loop, or the check of the held object after it
GraspStep ==
    /\ pc = "grasp_loop" /\ ~yielded
    /\ IF i < grasping_steps
       THEN /\ Yield("grasp", action)
            /\ i' = i + 1
            /\ UNCHANGED <<pc, is_grasping, grasp_outcome, result, err_object>>
       ELSE IF obj_in_hand = None
            THEN /\ Raise("EXECUTION_ERROR", None)
                 /\ grasp_outcome' = "raised"
                 /\ UNCHANGED <<is_grasping, emitted, out, yielded, i>>
            ELSE /\ is_grasping' = TRUE
                 /\ grasp_outcome' = "returned"
                 /\ pc' = "pick_settle"
                 /\ UNCHANGED <<emitted, out, yielded, i, result, err_object>>
    /\ UNCHANGED <<task, fast_execution, initial_pos_dict, hostVars, prim,
                   target, action, ee_call, base_plan, pre_path,
                   interaction_path, planner_calls, warned, first_contact, held0, nav_pos,
                   ee_outcome>>
    /\ UNCHANGED <<offset_params, obj_rot, ee_still, sim_steps, pick_place_pos,
                   objects_to_ignore, vrVars, soakVars>>

\* the code of _execute_ungrasp before its loop
UngraspEntry ==
    /\ pc = "ungrasp_entry" /\ ~yielded
    /\ action' = [_get_still_action EXCEPT !.gripper = 1]
    /\ i' = 0
    /\ grasp_outcome' = "running"
    /\ pc' = "ungrasp_loop"
    /\ UNCHANGED <<selfVars, hostVars, prim, target, yielded, ee_call,
                   base_plan, pre_path, interaction_path, emitted, out, result,
                   err_object, planner_calls, warned, first_contact, held0, nav_pos, ee_outcome>>
    /\ UNCHANGED <<offset_params, obj_rot, ee_still, sim_steps, pick_place_pos,
                   objects_to_ignore, vrVars, soakVars>>

\* one iteration of the loop, or the check of the held object after it
UngraspStep ==
    /\ pc = "ungrasp_loop" /\ ~yielded
    /\ IF i < ungrasping_steps
       THEN /\ Yield("ungrasp", action)
            /\ i' = i + 1
            /\ UNCHANGED <<pc, is_grasping, grasp_outcome, result, err_object>>
       ELSE IF obj_in_hand # None
            THEN /\ Raise("EXECUTION_ERROR", None)
                 /\ grasp_outcome' = "raised"
                 /\ UNCHANGED <<is_grasping, emitted, out, yielded, i>>
            ELSE /\ is_grasping' = FALSE
                 /\ grasp_outcome' = "returned"
                 /\ pc' = "place_hold"
                 /\ UNCHANGED <<emitted, out, yielded, i, result, err_object>>
    /\ UNCHANGED <<task, fast_execution, initial_pos_dict, hostVars, prim,
                   target, action, ee_call, base_plan, pre_path,
                   interaction_path, planner_calls, warned, first_contact, held0, nav_pos,
                   ee_outcome>>
    /\ UNCHANGED <<offset_params, obj_rot, ee_still, sim_steps, pick_place_pos,
                   objects_to_ignore, vrVars, soakVars>>

\* ------------------------------------------------------- still loops
\* still_action = self._get_still_action() before a for loop of yields
StillEntry(label) ==
    /\ pc = label /\ ~yielded
    /\ action' = _get_still_action
    /\ i' = 0
    /\ pc' = label \o "_loop"
    /\ UNCHANGED <<selfVars, hostVars, prim, target, yielded, ee_call,
                   base_plan, pre_path, interaction_path, obsVars>>
    /\ UNCHANGED <<offset_params, obj_rot, ee_still, sim_steps, pick_place_pos,
                   objects_to_ignore, vrVars, soakVars>>

\* for i in range(n): yield still_action; then the code after the loop
StillStep(label, n, next) ==
    /\ pc = label \o "_loop" /\ ~yielded
    /\ IF i < n
       THEN /\ Yield(label, action)
            /\ i' = i + 1
            /\ UNCHANGED <<pc, result, err_object>>
       ELSE /\ IF next = "idle" THEN Return
                                ELSE pc' = next /\ UNCHANGED <<result, err_object>>
            /\ UNCHANGED <<emitted, out, yielded, i>>
    /\ UNCHANGED <<selfVars, hostVars, prim, target, action, ee_call,
                   base_plan, pre_path, interaction_path, planner_calls,
                   warned, first_contact, held0, nav_pos, ee_outcome, grasp_outcome>>
    /\ UNCHANGED <<offset_params, obj_rot, ee_still, sim_steps, pick_place_pos,
                   objects_to_ignore, vrVars, soakVars>>

\* the generator is resumed after its last yield and finishes
GenReturn ==
    /\ pc = "return" /\ ~yielded
    /\ Return
    /\ UNCHANGED <<selfVars, hostVars, prim, target, yielded, i, action,
                   ee_call, base_plan, pre_path, interaction_path, emitted, out,
                   planner_calls, warned, first_contact, held0, nav_pos, ee_outcome,
                   grasp_outcome>>
    /\ UNCHANGED <<offset_params, obj_rot, ee_still, sim_steps, pick_place_pos,
                   objects_to_ignore, vrVars, soakVars>>

\* -------------------------------------------------------------- _pick
\* the required-path check of _pick and of _toggle
NoArmPath_mut(pre, inter, distance) ==
    \/ pre.none
    \/ Len(pre.wps) = 0
    \/ inter.none
    \/ Len(inter.wps) = 0
NoArmPath(pre, inter, distance) ==
    \/ pre.none
    \/ Len(pre.wps) = 0
    \/ inter.none
    \/ (Len(inter.wps) = 0 /\ distance # 0)

\* obj = self._get_obj_in_hand() and the already-grasping checks
PickStart_mut ==
    /\ pc = "pick_start" /\ ~yielded
    /\ IF obj_in_hand # None
       THEN /\ pc' = "pick_final"
            /\ UNCHANGED <<warned, emitted, out, yielded, result, err_object>>
       ELSE \E robot_is_grasping \in BOOLEAN, robot_is_grasping_obj \in BOOLEAN :
              /\ robot_is_grasping_obj => robot_is_grasping
              /\ IF robot_is_grasping
                 THEN IF robot_is_grasping_obj
                      THEN /\ warned' = TRUE
                           /\ Yield("pick_already", ZeroAction)
                           /\ pc' = "return"
                           /\ UNCHANGED <<result, err_object>>
                      ELSE /\ Raise("PRE_CONDITION_ERROR", target)
                           /\ emitted' = Append(emitted,
                                                Cmd("pick_already", ZeroAction))
                           /\ UNCHANGED <<warned, out, yielded>>
                 ELSE /\ pc' = "pick_plan"
                      /\ UNCHANGED <<warned, emitted, out, yielded, result, err_object>>
    /\ UNCHANGED <<selfVars, hostVars, prim, target, i, action, ee_call,
                   base_plan, pre_path, interaction_path, planner_calls,
                   first_contact, held0, nav_pos, ee_outcome, grasp_outcome>>
    /\ UNCHANGED <<offset_params, obj_rot, ee_still, sim_steps, pick_place_pos,
                   objects_to_ignore, vrVars, soakVars>>

PickStart ==
    /\ pc = "pick_start" /\ ~yielded
    /\ IF obj_in_hand # None
       THEN /\ pc' = "pick_final"
            /\ UNCHANGED <<warned, emitted, out, yielded, result, err_object>>
       ELSE \E robot_is_grasping \in BOOLEAN, robot_is_grasping_obj \in BOOLEAN :
              /\ robot_is_grasping_obj => robot_is_grasping
              /\ IF robot_is_grasping
                 THEN IF robot_is_grasping_obj
                      THEN /\ warned' = TRUE
                           /\ Yield("pick_already", ZeroAction)
                           /\ pc' = "return"
                           /\ UNCHANGED <<result, err_object>>
                      ELSE /\ Raise("PRE_CONDITION_ERROR", target)
                           /\ UNCHANGED <<warned, emitted, out, yielded>>
                 ELSE /\ pc' = "pick_plan"
                      /\ UNCHANGED <<warned, emitted, out, yielded, result, err_object>>
    /\ UNCHANGED <<selfVars, hostVars, prim, target, i, action, ee_call,
                   base_plan, pre_path, interaction_path, planner_calls,
                   first_contact, held0, nav_pos, ee_outcome, grasp_outcome>>
    /\ UNCHANGED <<offset_params, obj_rot, ee_still, sim_steps, pick_place_pos,
                   objects_to_ignore, vrVars, soakVars>>

\* len(params) > 3: the picking position is robot-agnostic
FingerOffset_mut(params) == params.len >= 3
FingerOffset(params) == params.len > 3

\* a + b and a - k * d on positions
VecAdd(a, b) == <<a[1] + b[1], a[2] + b[2], a[3] + b[3]>>
VecSubScaled(a, d, k) == <<a[1] - k * d[1], a[2] - k * d[2], a[3] - k * d[3]>>

\* pick_place_pos: a copy of the object's position plus the offset turned
\* into the world frame, minus the finger length along the picking
\* direction when the parameters have more than three fields
PickTarget_mut(o) ==
    LET vector == quat2mat_apply(obj_rot[o], pick_offset[o])
    IN <<obj_pos[o][1] + vector[1], obj_pos[o][2] + vector[2], obj_pos[o][3]>>
PickTarget(o) ==
    LET vector == quat2mat_apply(obj_rot[o], pick_offset[o])
        pos == VecAdd(obj_pos[o], vector)
    IN IF FingerOffset(offset_params[B1K_PICK][o])
       THEN VecSubScaled(pos, default_direction, finger_size)
       ELSE pos

\* parameter lookup, plan_ee_pick, the check of the paths, first command
PickPlan ==
    /\ pc = "pick_plan" /\ ~yielded
    /\ IF target \notin DOMAIN offset_params[B1K_PICK]
       THEN /\ Raise("KeyError", None)
            /\ UNCHANGED <<pre_path, interaction_path, planner_calls, action,
                           emitted, out, yielded, pick_place_pos>>
       ELSE \E mat \in quat2mat(obj_rot[target]),
               pre \in PrePaths, inter \in InteractionPaths :
              IF mat = "ValueError"
              THEN /\ Raise("ValueError", None)
                   /\ UNCHANGED <<pre_path, interaction_path, planner_calls,
                                  action, emitted, out, yielded, pick_place_pos>>
              ELSE /\ pre_path' = pre
                   /\ interaction_path' = inter
                   /\ planner_calls' = planner_calls + 1
                   /\ pick_place_pos' = PickTarget(target)
                   /\ IF NoArmPath(pre, inter, pre_grasping_distance)
                      THEN /\ Raise("PLANNING_ERROR", target)
                           /\ UNCHANGED <<action, emitted, out, yielded>>
                      ELSE /\ action' = _get_still_action
                           /\ Yield("pre_approach", action')
                           /\ pc' = "pick_interaction"
                           /\ UNCHANGED <<result, err_object>>
    /\ UNCHANGED <<selfVars, hostVars, prim, target, i, ee_call, base_plan,
                   warned, first_contact, held0, nav_pos, ee_outcome, grasp_outcome>>
    /\ UNCHANGED <<offset_params, obj_rot, ee_still, sim_steps,
                   objects_to_ignore, vrVars, soakVars>>

\* if pre_grasping_distance != 0: the interaction path, stopping on contact
PickInteraction ==
    /\ pc = "pick_interaction" /\ ~yielded
    /\ IF pre_grasping_distance # 0
       THEN EECall("pick_interaction")
       ELSE /\ pc' = "grasp_entry"
            /\ UNCHANGED <<ee_call, action, i, ee_outcome, first_contact,
                           ee_still>>
    /\ UNCHANGED <<selfVars, hostVars, prim, target, yielded, base_plan,
                   pre_path, interaction_path, emitted, out, result, err_object,
                   planner_calls, warned, held0, nav_pos, grasp_outcome>>
    /\ UNCHANGED <<offset_params, obj_rot, sim_steps, pick_place_pos,
                   objects_to_ignore, vrVars, soakVars>>

\* for i in range(10): self.env.simulator.step(), after the grasp
PickSettle ==
    /\ pc = "pick_settle" /\ ~yielded
    /\ HostChanges
    /\ sim_steps' = sim_steps + 10
    /\ pc' = "pick_retract"
    /\ UNCHANGED <<selfVars, prim, target, yielded, i, action, ee_call,
                   base_plan, pre_path, interaction_path, obsVars>>
    /\ UNCHANGED <<offset_params, obj_rot, ee_still, pick_place_pos,
                   objects_to_ignore, vrVars, soakVars>>

\* if pre_grasping_distance != 0: the interaction path reversed, with the
\* gripper closed
PickRetract ==
    /\ pc = "pick_retract" /\ ~yielded
    /\ IF pre_grasping_distance # 0
       THEN EECall("pick_retract")
       ELSE /\ pc' = "pick_final"
            /\ UNCHANGED <<ee_call, action, i, ee_outcome, first_contact,
                           ee_still>>
    /\ UNCHANGED <<selfVars, hostVars, prim, target, yielded, base_plan,
                   pre_path, interaction_path, emitted, out, result, err_object,
                   planner_calls, warned, held0, nav_pos, grasp_outcome>>
    /\ UNCHANGED <<offset_params, obj_rot, sim_steps, pick_place_pos,
                   objects_to_ignore, vrVars, soakVars>>

\* for i in range(5): self.env.simulator.step() after the retracting path;
\* the arm is tucked
PickSettle2_mut ==
    /\ pc = "pick_settle2" /\ ~yielded
    /\ HostChanges
    /\ sim_steps' = sim_steps + 5
    /\ pc' = "pick_plan"
    /\ UNCHANGED <<selfVars, prim, target, yielded, i, action, ee_call,
                   base_plan, pre_path, interaction_path, obsVars>>
    /\ UNCHANGED <<offset_params, obj_rot, ee_still, pick_place_pos,
                   objects_to_ignore, vrVars, soakVars>>
PickSettle2 ==
    /\ pc = "pick_settle2" /\ ~yielded
    /\ HostChanges
    /\ sim_steps' = sim_steps + 5
    /\ pc' = "pick_final"
    /\ UNCHANGED <<selfVars, prim, target, yielded, i, action, ee_call,
                   base_plan, pre_path, interaction_path, obsVars>>
    /\ UNCHANGED <<offset_params, obj_rot, ee_still, pick_place_pos,
                   objects_to_ignore, vrVars, soakVars>>

\* the five still commands that end _pick
PickFinalEntry == StillEntry("pick_final")
PickFinalStep_mut == StillStep("pick_final", 7, "idle")
PickFinalStep == StillStep("pick_final", 5, "idle")

\* ------------------------------------------------------------- _place
PlaceStart ==
    /\ pc = "place_start" /\ ~yielded
    /\ pc' = IF obj_in_hand # None THEN "ungrasp_entry" ELSE "place_final"
    /\ UNCHANGED <<selfVars, hostVars, prim, target, yielded, i, action,
                   ee_call, base_plan, pre_path, interaction_path, obsVars>>
    /\ UNCHANGED <<offset_params, obj_rot, ee_still, sim_steps, pick_place_pos,
                   objects_to_ignore, vrVars, soakVars>>

\* the ten still commands after the ungrasp
PlaceHoldEntry == StillEntry("place_hold")
PlaceHoldStep_mut == StillStep("place_hold", 9, "place_final")
PlaceHoldStep == StillStep("place_hold", 10, "place_final")

\* the five still commands that end _place
PlaceFinalEntry == StillEntry("place_final")
PlaceFinalStep == StillStep("place_final", 5, "idle")

\* ------------------------------------------------------------ _toggle
\* parameter lookup, plan_ee_toggle, the check of the paths, first command
ToggleStart ==
    /\ pc = "toggle_start" /\ ~yielded
    /\ IF target \notin DOMAIN offset_params[B1K_TOGGLE]
       THEN /\ Raise("KeyError", None)
            /\ UNCHANGED <<pre_path, interaction_path, planner_calls, action,
                           emitted, out, yielded>>
       ELSE \E mat \in quat2mat(obj_rot[target]),
               pre \in PrePaths, inter \in InteractionPaths :
              IF mat = "ValueError"
              THEN /\ Raise("ValueError", None)
                   /\ UNCHANGED <<pre_path, interaction_path, planner_calls,
                                  action, emitted, out, yielded>>
              ELSE /\ pre_path' = pre
                   /\ interaction_path' = inter
                   /\ planner_calls' = planner_calls + 1
                   /\ IF NoArmPath(pre, inter, pre_toggling_distance)
                      THEN /\ Raise("PLANNING_ERROR", target)
                           /\ UNCHANGED <<action, emitted, out, yielded>>
                      ELSE /\ action' = _get_still_action
                           /\ Yield("pre_approach", action')
                           /\ pc' = "toggle_interaction"
                           /\ UNCHANGED <<result, err_object>>
    /\ UNCHANGED <<selfVars, hostVars, prim, target, i, ee_call, base_plan,
                   warned, first_contact, held0, nav_pos, ee_outcome, grasp_outcome>>
    /\ UNCHANGED <<offset_params, obj_rot, ee_still, sim_steps, pick_place_pos,
                   objects_to_ignore, vrVars, soakVars>>

\* the interaction path, stopping on contact
ToggleInteraction ==
    /\ pc = "toggle_interaction" /\ ~yielded
    /\ EECall("toggle_interaction")
    /\ UNCHANGED <<selfVars, hostVars, prim, target, yielded, base_plan,
                   pre_path, interaction_path, emitted, out, result, err_object,
                   planner_calls, warned, held0, nav_pos, grasp_outcome>>
    /\ UNCHANGED <<offset_params, obj_rot, sim_steps, pick_place_pos,
                   objects_to_ignore, vrVars, soakVars>>

\* the arm is moved back and one still command ends _toggle
ToggleRetract ==
    /\ pc = "toggle_retract" /\ ~yielded
    /\ action' = _get_still_action
    /\ Yield("toggle_final", action')
    /\ pc' = "return"
    /\ UNCHANGED <<selfVars, hostVars, prim, target, i, ee_call, base_plan,
                   pre_path, interaction_path, result, err_object,
                   planner_calls, warned, first_contact, held0, nav_pos, ee_outcome,
                   grasp_outcome>>
    /\ UNCHANGED <<offset_params, obj_rot, ee_still, sim_steps, pick_place_pos,
                   objects_to_ignore, vrVars, soakVars>>

\* ---------------------------------------------------------- _pull_open
\* the parameter lookup, then p.getQuaternionFromEuler with p undefined
\* ("import pybullet as p" is commented out): NameError before planning
PullOpenStart ==
    /\ pc = "pull_open_start" /\ ~yielded
    /\ IF target \notin DOMAIN offset_params[B1K_PULL]
       THEN Raise("KeyError", None)
       ELSE Raise("NameError", None)
    /\ UNCHANGED <<selfVars, hostVars, prim, target, yielded, i, action,
                   ee_call, base_plan, pre_path, interaction_path, emitted, out,
                   planner_calls, warned, first_contact, held0, nav_pos, ee_outcome,
                   grasp_outcome>>
    /\ UNCHANGED <<offset_params, obj_rot, ee_still, sim_steps, pick_place_pos,
                   objects_to_ignore, vrVars, soakVars>>

\* ------------------------------------------------------ _pull, _push
\* the object's joint is set, then still_action = self._get_still_action()
\* the position the joint is set to: jnt.set_pos(max_pos - 0.1) in _pull,
\* jnt.set_pos(min_pos) in _push
set_pos_mut(label) == IF label = "pull" THEN upper_limit ELSE lower_limit
set_pos(label) == IF label = "pull" THEN upper_limit - 1 ELSE lower_limit

SetJointStart(label) ==
    /\ pc = label \o "_start" /\ ~yielded
    /\ IF target \notin Articulated
       THEN /\ Raise("KeyError", None)
            /\ UNCHANGED <<joint_0, action, i>>
       ELSE /\ joint_0' = [joint_0 EXCEPT ![target] = set_pos(label)]
            /\ action' = _get_still_action
            /\ i' = 0
            /\ pc' = label \o "_loop"
            /\ UNCHANGED <<result, err_object>>
    /\ UNCHANGED <<selfVars, obj_in_hand, contact, joint_pos, obj_pos, prim,
                   target, yielded, ee_call, base_plan, pre_path,
                   interaction_path, emitted, out, planner_calls, warned,
                   first_contact, held0, nav_pos, ee_outcome, grasp_outcome,
                   moreVars>>

\* for i in range(5): yield still_action ...
SetJointStep(label) ==
    /\ pc = label \o "_loop" /\ ~yielded
    /\ IF i < 5
       THEN /\ Yield(label, action)
            /\ i' = i + 1
            /\ pc' = label \o "_sim"
            /\ UNCHANGED <<result, err_object>>
       ELSE /\ Return
            /\ UNCHANGED <<emitted, out, yielded, i>>
    /\ UNCHANGED <<selfVars, hostVars, prim, target, action, ee_call,
                   base_plan, pre_path, interaction_path, planner_calls,
                   warned, first_contact, held0, nav_pos, ee_outcome,
                   grasp_outcome, moreVars>>

\* ... self.env.simulator.step(), when the generator is resumed
SetJointSim(label) ==
    /\ pc = label \o "_sim" /\ ~yielded
    /\ HostChanges
    /\ sim_steps' = sim_steps + 1
    /\ pc' = label \o "_loop"
    /\ UNCHANGED <<selfVars, prim, target, yielded, i, action, ee_call,
                   base_plan, pre_path, interaction_path, obsVars,
                   offset_params, obj_rot, ee_still, pick_place_pos,
                   objects_to_ignore, vrVars, soakVars>>

PullStart == SetJointStart("pull")
PullStep == SetJointStep("pull")
PullSim == SetJointSim("pull")

PushStart == SetJointStart("push")
PushStep == SetJointStep("push")
PushSim == SetJointSim("push")

\* ------------------------------------------------------------- _dummy
\* the arm is shown tucked and one still command is yielded
DummyStart ==
    /\ pc = "dummy_start" /\ ~yielded
    /\ action' = _get_still_action
    /\ Yield("dummy", action')
    /\ pc' = "return"
    /\ UNCHANGED <<selfVars, hostVars, prim, target, i, ee_call, base_plan,
                   pre_path, interaction_path, result, err_object,
                   planner_calls, warned, first_contact, held0, nav_pos,
                   ee_outcome, grasp_outcome, moreVars>>

\* ------------------------------------------------------------ spec
Next ==
    \/ \E p \in Primitives \ {"dummy"}, o \in Objects : Apply(p, o)
    \/ Apply("dummy", None)
    \/ Tick
    \/ HostStep
    \/ \E b \in BOOLEAN : SetFastExecution(b)
    \/ NavigateStart
    \/ NavigatePlan
    \/ NavigateSettle
    \/ EEPathStep
    \/ GraspEntry
    \/ GraspStep
    \/ UngraspEntry
    \/ UngraspStep
    \/ GenReturn
    \/ PickStart
    \/ PickPlan
    \/ PickInteraction
    \/ PickSettle
    \/ PickRetract
    \/ PickSettle2
    \/ PickFinalEntry
    \/ PickFinalStep
    \/ PlaceStart
    \/ PlaceHoldEntry
    \/ PlaceHoldStep
    \/ PlaceFinalEntry
    \/ PlaceFinalStep
    \/ ToggleStart
    \/ ToggleInteraction
    \/ ToggleRetract
    \/ PullOpenStart
    \/ PullStart
    \/ PullStep
    \/ PullSim
    \/ PushStart
    \/ PushStep
    \/ PushSim
    \/ DummyStart

Spec == Init /\ [][Next]_vars

\* the consumer drains the generator to exhaustion: it keeps applying the
\* yielded command and resuming the generator, which then runs to its next
\* yield, its return or its raise
Drain ==
    \/ Tick
    \/ NavigateStart
    \/ NavigatePlan
    \/ NavigateSettle
    \/ EEPathStep
    \/ GraspEntry
    \/ GraspStep
    \/ UngraspEntry
    \/ UngraspStep
    \/ GenReturn
    \/ PickStart
    \/ PickPlan
    \/ PickInteraction
    \/ PickSettle
    \/ PickRetract
    \/ PickSettle2
    \/ PickFinalEntry
    \/ PickFinalStep
    \/ PlaceStart
    \/ PlaceHoldEntry
    \/ PlaceHoldStep
    \/ PlaceFinalEntry
    \/ PlaceFinalStep
    \/ ToggleStart
    \/ ToggleInteraction
    \/ ToggleRetract
    \/ PullOpenStart
    \/ PullStart
    \/ PullStep
    \/ PullSim
    \/ PushStart
    \/ PushStep
    \/ PushSim
    \/ DummyStart

\* primitives started one after the other, each drained
NextDrain ==
    \/ \E p \in Primitives \ {"dummy"}, o \in Objects : Apply(p, o)
    \/ Apply("dummy", None)
    \/ Drain

SpecDrain == Init /\ [][NextDrain]_vars /\ WF_vars(Drain)

\* ----------------------------------------------------------- dispatch
\* apply(action_index): index 10 is the dummy, any other index selects an
\* entry of the action list; the handler registered for its skill id is
\* called with the entry's object, which creates the generator
ApplyIndex(action_index) ==
    LET primitive_obj_pair == action_list(task)[action_index + 1]
    IN IF action_index = 10
       THEN Apply("dummy", None)
       ELSE IF primitive_obj_pair.skill \notin DOMAIN controller_functions
            THEN /\ pc = "idle"
                 /\ prim' = "none"
                 /\ target' = primitive_obj_pair.obj
                 /\ result' = "KeyError"
                 /\ UNCHANGED <<selfVars, hostVars, pc, yielded, i, action,
                                ee_call, base_plan, pre_path, interaction_path,
                                emitted, out, err_object, planner_calls, warned,
                                first_contact, held0, nav_pos, ee_outcome,
                                grasp_outcome, moreVars>>
            ELSE Apply(controller_functions[primitive_obj_pair.skill],
                       primitive_obj_pair.obj)

\* the skill id under which each handler looks up its offset parameters
\* (-1: the handler looks up none)
ParamsSkill ==
    [p \in DOMAIN StartLabel |->
        CASE p = "navigate" -> B1K_NAVIGATE_TO
          [] p = "pick" -> B1K_PICK
          [] p = "toggle" -> B1K_TOGGLE
          [] p = "pull_open" -> B1K_PULL
          [] OTHER -> -1]

\* the generator is started and the handler looks up its offset parameters
\* (params = skill_object_offset_params[...][object_name]; _navigate_to
\* also reads params[3]); what the handler does with them is in Spec
LookupParams ==
    /\ prim \in DOMAIN StartLabel
    /\ pc = StartLabel[prim] /\ ~yielded
    /\ pc' = "idle"
    /\ result' =
         IF ParamsSkill[prim] = -1 THEN "dispatched"
         ELSE IF target \notin DOMAIN offset_params[ParamsSkill[prim]]
              THEN "KeyError"
         ELSE IF prim = "navigate"
                 /\ offset_params[B1K_NAVIGATE_TO][target].len <= 3
              THEN "IndexError"
         ELSE "dispatched"
    /\ UNCHANGED <<selfVars, hostVars, prim, target, yielded, i, action,
                   ee_call, base_plan, pre_path, interaction_path, emitted,
                   out, err_object, planner_calls, warned, first_contact,
                   held0, nav_pos, ee_outcome, grasp_outcome, moreVars>>

\* every activity of action_dict, every index of its action list
InitDispatch == InitTask(DOMAIN action_dict)

NextDispatch ==
    \/ \E k \in 0..(Len(action_list(task)) - 1) : ApplyIndex(k)
    \/ LookupParams
    \/ \E b \in BOOLEAN : SetFastExecution(b)

SpecDispatch == InitDispatch /\ [][NextDispatch]_vars

\* ------------------------------------------------------- cancellation
\* the consumer stops draining: it has received a command (and may or may
\* not apply it) and never resumes the generator, which is suspended at
\* its yield; no handler has a try/finally around a yield, so nothing of
\* the executor runs
Cancel_mut ==
    /\ yielded
    /\ yielded' = FALSE
    /\ pc' = "idle"
    /\ result' = "cancelled"
    /\ HostChanges \/ UNCHANGED hostVars
    /\ is_grasping' = (obj_in_hand' # None)
    /\ UNCHANGED <<task, fast_execution, initial_pos_dict, prim, target, i,
                   action, ee_call, base_plan, pre_path, interaction_path,
                   emitted, out, err_object, planner_calls, warned,
                   first_contact, held0, nav_pos, ee_outcome, grasp_outcome,
                   moreVars>>
Cancel ==
    /\ yielded
    /\ yielded' = FALSE
    /\ pc' = "idle"
    /\ result' = "cancelled"
    /\ HostChanges \/ UNCHANGED hostVars
    /\ UNCHANGED <<selfVars, prim, target, i, action, ee_call, base_plan,
                   pre_path, interaction_path, emitted, out, err_object,
                   planner_calls, warned, first_contact, held0, nav_pos,
                   ee_outcome, grasp_outcome, moreVars>>

\* the primitives with a consumer that may stop draining at any command
NextCancel == Next \/ Cancel

SpecCancel == Init /\ [][NextCancel]_vars

\* pick alone, in worlds where the pumpkin is at any position and the
\* graspable objects have any orientation
InitPick ==
    InitWorld({"putting_away_Halloween_decorations"},
              {[StartPos EXCEPT !["pumpkin.n.02_1"] = p] : p \in Positions},
              {[o \in Objects |-> IF o \in Graspable THEN r[o] ELSE 0] :
                   r \in [Objects -> Rotations]})

NextPick ==
    \/ \E o \in Objects : Apply("pick", o)
    \/ Tick
    \/ PickStart
    \/ PickPlan
    \/ PickInteraction
    \/ EEPathStep
    \/ GraspEntry
    \/ GraspStep
    \/ PickSettle
    \/ PickRetract
    \/ PickSettle2
    \/ PickFinalEntry
    \/ PickFinalStep
    \/ GenReturn

SpecPick == InitPick /\ [][NextPick]_vars

\* the primitives that turn an object-frame offset into the world frame,
\* in the world of Init and in one where every orientation is degenerate
InitPose ==
    InitWorld({"putting_away_Halloween_decorations"}, {StartPos},
              {StartRot, [o \in Objects |-> Degenerate]})

NextPose ==
    \/ \E p \in {"navigate", "pick", "toggle"}, o \in Objects : Apply(p, o)
    \/ Tick
    \/ NavigateStart
    \/ NavigatePlan
    \/ NavigateSettle
    \/ PickStart
    \/ PickPlan
    \/ PickInteraction
    \/ EEPathStep
    \/ GraspEntry
    \/ GraspStep
    \/ PickSettle
    \/ PickRetract
    \/ PickSettle2
    \/ PickFinalEntry
    \/ PickFinalStep
    \/ ToggleStart
    \/ ToggleInteraction
    \/ ToggleRetract
    \/ GenReturn

SpecPose == InitPose /\ [][NextPose]_vars

\* navigation alone, for every task, in a world where objects are moved
\* between two navigations
InitNav == InitTask(Tasks)

NextNav ==
    \/ \E o \in Objects : Apply("navigate", o)
    \/ Tick
    \/ \E o \in Graspable, p \in Positions : MoveObject(o, p)
    \/ NavigateStart
    \/ NavigatePlan
    \/ NavigateSettle

SpecNav == InitNav /\ [][NextNav]_vars

\* ------------------------------------------------- vr_utils, applied
\* one of the functions is about to be applied to arguments of the bounded
\* sets: a round trip from a binary vector, a round trip from a list of
\* button events, calc_z_dropoff, or VrSettings.load_vr_config
InitVr ==
    /\ InitPrimitives({"putting_away_Halloween_decorations"}, {StartPos},
                      {StartRot})
    /\ SoakedIdle
    /\ vr_pc \in {"bin", "list", "dropoff", "config"}
    /\ bin_events \in IF vr_pc = "bin" THEN BinVectors ELSE {<<>>}
    /\ bin_in = bin_events
    /\ button_press_data \in IF vr_pc = "list" THEN ButtonLists ELSE {<<>>}
    /\ bdata_in = button_press_data
    /\ theta \in IF vr_pc = "dropoff" THEN Angles ELSE {0}
    /\ t_min \in IF vr_pc = "dropoff" THEN Angles ELSE {0}
    /\ t_max \in IF vr_pc = "dropoff" THEN Angles ELSE {0}
    /\ z_mult = Frac(0, 1)
    /\ vr_config \in IF vr_pc = "config" THEN VrConfigs ELSE {NoConfig}
    /\ settings = NoSettings

\* button_press_data = convert_binary_to_button_data(bin_events)
ConvertBinaryToButtonData ==
    /\ vr_pc \in {"bin", "list_mid"}
    /\ LET r == convert_binary_to_button_data(bin_events)
       IN IF r.err # "none"
          THEN /\ vr_pc' = r.err
               /\ UNCHANGED button_press_data
          ELSE /\ button_press_data' = r.val
               /\ vr_pc' = IF vr_pc = "bin" THEN "bin_mid" ELSE "list_done"
    /\ UNCHANGED <<primVars, soakVars, bin_in, bdata_in, bin_events, theta, t_min, t_max,
                   z_mult, vr_config, settings>>

\* bin_events = convert_button_data_to_binary(button_press_data)
ConvertButtonDataToBinary ==
    /\ vr_pc \in {"list", "bin_mid"}
    /\ LET r == convert_button_data_to_binary(button_press_data)
       IN IF r.err # "none"
          THEN /\ vr_pc' = r.err
               /\ UNCHANGED bin_events
          ELSE /\ bin_events' = r.val
               /\ vr_pc' = IF vr_pc = "list" THEN "list_mid" ELSE "bin_done"
    /\ UNCHANGED <<primVars, soakVars, bin_in, bdata_in, button_press_data, theta, t_min,
                   t_max, z_mult, vr_config, settings>>

\* z_mult = calc_z_dropoff(theta, t_min, t_max)
CalcZDropoff ==
    /\ vr_pc = "dropoff"
    /\ z_mult' = calc_z_dropoff(theta, t_min, t_max)
    /\ vr_pc' = "dropoff_done"
    /\ UNCHANGED <<primVars, soakVars, bin_in, bdata_in, bin_events, button_press_data,
                   theta, t_min, t_max, vr_config, settings>>

\* VrSettings.load_vr_config: the fields are assigned in the order of the
\* code, up to the first failing assert or lookup
LoadVrConfig ==
    /\ vr_pc = "config"
    /\ LET s1 == [settings EXCEPT
                     !.movement_controller = vr_config.movement_controller]
           s2 == [s1 EXCEPT !.relative_movement_device =
                                 vr_config.relative_movement_device]
           s3 == [s2 EXCEPT
                     !.use_tracked_body = vr_config.use_tracked_body,
                     !.torso_tracker_serial =
                         IF vr_config.torso_tracker_serial = ""
                         THEN None ELSE vr_config.torso_tracker_serial,
                     !.using_tracked_body =
                         IF vr_config.use_tracked_body
                         THEN bool(vr_config.torso_tracker_serial)
                         ELSE vr_config.use_tracked_body]
           device == IF vr_config.current_device
                           \notin DOMAIN vr_config.device_settings
                     THEN "OTHER_VR" ELSE vr_config.current_device
           s4 == [s3 EXCEPT
                     !.curr_device = device,
                     !.torso_tracker_serial =
                         IF device = "OCULUS" THEN None ELSE @]
       IN IF s1.movement_controller \notin {"left", "right"}
          THEN settings' = s1 /\ vr_pc' = "AssertionError"
          ELSE IF s2.relative_movement_device
                     \notin {"hmd", "left_controller", "right_controller"}
          THEN settings' = s2 /\ vr_pc' = "AssertionError"
          ELSE IF device \notin DOMAIN vr_config.device_settings
          THEN settings' = s4 /\ vr_pc' = "KeyError"
          ELSE /\ settings' =
                    [s4 EXCEPT !.button_action_map =
                        gen_button_action_map(vr_config.device_settings[device])]
               /\ vr_pc' = "config_done"
    /\ UNCHANGED <<primVars, soakVars, bin_in, bdata_in, bin_events, button_press_data,
                   theta, t_min, t_max, z_mult, vr_config>>

NextVr ==
    \/ ConvertBinaryToButtonData
    \/ ConvertButtonDataToBinary
    \/ CalcZDropoff
    \/ LoadVrConfig

SpecVr == InitVr /\ [][NextVr]_vars

\* ================================================ object_states: Soaked
\* the other bodies of the scene the object can touch and water particles
\* are made of; the water-source objects of the scene
MaxBody == 2
MaxSources == 1
Bodies == 1..MaxBody
\* get_body_ids() of the object: none, or its one body
ObjBodyIds == {{}, {0}}
\* particle.get_body_ids() of the particles a stream can hold
Particles == {{b} : b \in Bodies}
\* water_stream.get_active_particles()
WaterStreams == SUBSET Particles
\* get_objects_with_state(WaterSource)
SourceLists == UNION {[1..n -> WaterStreams] : n \in 0..MaxSources}

\* ContactBodies._compute_value: for every body id of the object,
\* p.getContactPoints is evaluated, and the module binds no name p (it
\* imports neither pybullet nor ContactResult): NameError as soon as the
\* object has a body; the empty list when it has none
_compute_value(ids) == IF ids = {} THEN Ok({}) ELSE Err("NameError")

\* not set(particle.get_body_ids()).isdisjoint(contacted_water_body_ids)
Touches(particle, contacted) == particle \cap contacted # {}

\* Soaked._update: for every water source the contact bodies are read (the
\* value of ContactBodies can only come from _compute_value: its _set_value
\* raises NotImplementedError), then every active particle is tested; the
\* value is only ever assigned True. update_texture() follows and changes
\* the rendering only.
_update(v, sources, ids) ==
    IF sources = <<>>
    THEN Ok(v)
    ELSE LET c == _compute_value(ids)
         IN  IF c.err # "none"
             THEN Err(c.err)
             ELSE Ok(v \/ \E k \in 1..Len(sources) :
                             \E particle \in sources[k] :
                                 Touches(particle, c.val))

\* float(b) of a bool: 1.0 or 0.0
float(b) == IF b THEN 1 ELSE 0

\* Soaked._dump_state: OrderedDict(soaked=self.value)
_dump_state(v) == [soaked |-> v]

\* Soaked._serialize: np.array([float(state["soaked"])])
_serialize(state) == <<float(state.soaked)>>

\* Soaked._deserialize: OrderedDict(soaked=(state[0] == 1.0)), 1
_deserialize_mut(state) == <<[soaked |-> state[1] = 0], 1>>
_deserialize(state) == <<[soaked |-> state[1] = 1], 1>>

\* an object with a Soaked state in a scene with water sources
InitSoaked ==
    /\ InitPrimitives({"putting_away_Halloween_decorations"}, {StartPos},
                      {StartRot})
    /\ VrIdle
    /\ value = FALSE
    /\ body_ids \in ObjBodyIds
    /\ contact_points \in IF body_ids = {} THEN {{}} ELSE SUBSET Bodies
    /\ water_source_objs \in SourceLists
    /\ soaked_op = "none"
    /\ soaked_result = "none"
    /\ dumped = <<>>
    /\ serialized = <<>>
    /\ deserialized = <<>>

\* simulator steps: the contacts of the object change; the active particles
\* of a water stream change
SoakedContactsChange ==
    /\ body_ids # {}
    /\ contact_points' \in SUBSET Bodies
    /\ UNCHANGED <<primVars, vrVars, value, body_ids, water_source_objs,
                   soaked_op, soaked_result, dumped, serialized, deserialized>>

SoakedParticlesChange ==
    /\ \E k \in 1..Len(water_source_objs) :
           \E stream \in WaterStreams :
               water_source_objs' = [water_source_objs EXCEPT ![k] = stream]
    /\ UNCHANGED <<primVars, vrVars, value, body_ids, contact_points,
                   soaked_op, soaked_result, dumped, serialized, deserialized>>

SoakedUpdate ==
    /\ LET r == _update(value, water_source_objs, body_ids)
       IN  /\ value' = IF r.err = "none" THEN r.val ELSE value
           /\ soaked_result' = IF r.err = "none" THEN "done" ELSE r.err
    /\ soaked_op' = "_update"
    /\ UNCHANGED <<primVars, vrVars, body_ids, contact_points,
                   water_source_objs, dumped, serialized, deserialized>>

\* Soaked._set_value(new_value)
SoakedSetValue(new_value) ==
    /\ value' = new_value
    /\ soaked_op' = "_set_value"
    /\ soaked_result' = "done"
    /\ UNCHANGED <<primVars, vrVars, body_ids, contact_points,
                   water_source_objs, dumped, serialized, deserialized>>

\* a state is saved: what was made of an earlier one is dropped
SoakedDumpState ==
    /\ dumped' = <<_dump_state(value)>>
    /\ serialized' = <<>>
    /\ deserialized' = <<>>
    /\ soaked_op' = "_dump_state"
    /\ soaked_result' = "done"
    /\ UNCHANGED <<primVars, vrVars, value, body_ids, contact_points,
                   water_source_objs>>

SoakedSerialize ==
    /\ dumped # <<>>
    /\ serialized' = _serialize(dumped[1])
    /\ deserialized' = <<>>
    /\ soaked_op' = "_serialize"
    /\ soaked_result' = "done"
    /\ UNCHANGED <<primVars, vrVars, value, body_ids, contact_points,
                   water_source_objs, dumped>>

SoakedDeserialize ==
    /\ serialized # <<>>
    /\ deserialized' = _deserialize(serialized)
    /\ soaked_op' = "_deserialize"
    /\ soaked_result' = "done"
    /\ UNCHANGED <<primVars, vrVars, value, body_ids, contact_points,
                   water_source_objs, dumped, serialized>>

\* Soaked._load_state(state): self.value = state["soaked"], of the state
\* dumped or of the one read back
SoakedLoadState ==
    /\ \E state \in {dumped[k] : k \in 1..Len(dumped)} \cup
                    (IF deserialized = <<>> THEN {} ELSE {deserialized[1]}) :
           value' = state.soaked
    /\ soaked_op' = "_load_state"
    /\ soaked_result' = "done"
    /\ UNCHANGED <<primVars, vrVars, body_ids, contact_points,
                   water_source_objs, dumped, serialized, deserialized>>

NextSoaked ==
    \/ SoakedContactsChange
    \/ SoakedParticlesChange
    \/ SoakedUpdate
    \/ \E new_value \in BOOLEAN : SoakedSetValue(new_value)
    \/ SoakedDumpState
    \/ SoakedSerialize
    \/ SoakedDeserialize
    \/ SoakedLoadState

SpecSoaked == InitSoaked /\ [][NextSoaked]_vars

\* ================================================================ claims
\* the commands of the stop-on-contact interaction of this invocation
InteractionCmds ==
    PhaseCmds(IF prim = "toggle" THEN "toggle_interaction" ELSE "pick_interaction")
GraspCmds == PhaseCmds("grasp")
UngraspCmds == PhaseCmds("ungrasp")
AbsentOrEmpty(p) == p.none \/ Len(p.wps) = 0

\* C1: in a stop-on-contact call on a path of n waypoints, when contact is
\* first present during the tick of the k-th command (k < n; k = 0: present
\* at entry), exactly the commands of waypoints 1..k are emitted, the call
\* then returns without raising, and waypoint k+1 is never commanded.
C1_StopsAtContact ==
    (ee_outcome # "none" /\ first_contact >= 0
                         /\ first_contact < Len(interaction_path.wps)) =>
        /\ ee_outcome # "raised"
        /\ Len(InteractionCmds) = first_contact
        /\ \A j \in 1..Len(InteractionCmds) :
               InteractionCmds[j].arm = interaction_path.wps[j]
        /\ ee_outcome = "running" => (pc = "ee_loop" /\ ~yielded /\ contact)

C1_Witness ==
    /\ prim = "pick"
    /\ ee_outcome = "returned"
    /\ first_contact = 1
    /\ Len(interaction_path.wps) = 2
    /\ Len(InteractionCmds) = 1

\* C2: the stop-on-contact call raises EXECUTION_ERROR if and only if no
\* contact occurred during the interaction; a contact at any waypoint of
\* the path (a path that has waypoints), the last one included, ends the
\* call without an error.
C2_ErrorIffNoContact ==
    /\ ee_outcome = "raised" =>
           (first_contact = -1 \/ Len(interaction_path.wps) = 0)
    /\ ee_outcome = "returned" => first_contact >= 0

\* C3: _execute_grasp emits 9 (5 with fast_execution) identical
\* gripper-closing commands, looks at the held object only once all of them
\* are drained, then raises EXECUTION_ERROR when nothing is held and sets
\* is_grasping otherwise; is_grasping never becomes true with an empty hand.
C3_Grasp ==
    [][ /\ pc # "idle" => Len(GraspCmds') <= (IF fast_execution THEN 5 ELSE 9)
        /\ \A j \in 1..Len(GraspCmds') : GraspCmds'[j].gripper = -1
        /\ (Len(GraspCmds) >= 1 /\ Len(GraspCmds') > Len(GraspCmds)) => out' = out
        /\ (prim = "pick" /\ grasp_outcome = "running"
                          /\ grasp_outcome' # "running") =>
               /\ ~yielded
               /\ Len(GraspCmds) = (IF fast_execution THEN 5 ELSE 9)
               /\ IF obj_in_hand = None
                  THEN /\ grasp_outcome' = "raised"
                       /\ result' = "EXECUTION_ERROR"
                       /\ is_grasping' = is_grasping
                  ELSE /\ grasp_outcome' = "returned"
                       /\ result' = "running"
                       /\ is_grasping'
        /\ (~is_grasping /\ is_grasping') => obj_in_hand # None
      ]_vars

C3_Witness ==
    /\ prim = "pick"
    /\ grasp_outcome = "returned"
    /\ ~fast_execution
    /\ Len(GraspCmds) = 9
    /\ is_grasping

\* C4: _execute_ungrasp emits 9 (5 with fast_execution) identical
\* gripper-opening commands, then raises EXECUTION_ERROR when an object is
\* still held, leaving is_grasping as it was, and clears is_grasping
\* otherwise.
C4_Ungrasp ==
    [][ /\ pc # "idle" => Len(UngraspCmds') <= (IF fast_execution THEN 5 ELSE 9)
        /\ \A j \in 1..Len(UngraspCmds') : UngraspCmds'[j].gripper = 1
        /\ (Len(UngraspCmds) >= 1 /\ Len(UngraspCmds') > Len(UngraspCmds))
               => out' = out
        /\ (prim = "place" /\ grasp_outcome = "running"
                           /\ grasp_outcome' # "running") =>
               /\ ~yielded
               /\ Len(UngraspCmds) = (IF fast_execution THEN 5 ELSE 9)
               /\ IF obj_in_hand # None
                  THEN /\ grasp_outcome' = "raised"
                       /\ result' = "EXECUTION_ERROR"
                       /\ is_grasping' = is_grasping
                  ELSE /\ grasp_outcome' = "returned"
                       /\ result' = "running"
                       /\ ~is_grasping'
      ]_vars

C4_Witness ==
    /\ prim = "place"
    /\ grasp_outcome = "raised"
    /\ fast_execution
    /\ Len(UngraspCmds) = 5
    /\ is_grasping
    /\ result = "EXECUTION_ERROR"

\* C5: when a grasp or ungrasp attempt finishes, by success or by
\* EXECUTION_ERROR, is_grasping is true exactly when the host reports a
\* held object.
C5_MirrorsHost ==
    [][ (grasp_outcome = "running" /\ grasp_outcome' \in {"returned", "raised"})
            => (is_grasping' <=> obj_in_hand' # None) ]_vars

\* C6: a pick started while an object is held never calls the planner,
\* never emits a gripper-closing command, never raises, logs a warning, and
\* leaves is_grasping and the held object as they are, every time.
C6_PickWhileHolding ==
    [][ (prim = "pick" /\ held0 # None /\ pc # "idle") =>
            /\ planner_calls' = 0
            /\ Len(GraspCmds') = 0
            /\ result' \in {"running", "done"}
            /\ is_grasping' = is_grasping
            /\ ~yielded => obj_in_hand' = obj_in_hand
            /\ result' = "done" => warned'
      ]_vars

\* C7: a pick of X started while the hand holds another object Y raises
\* PRE_CONDITION_ERROR without a planner call and without any command.
C7_PickHandFull ==
    (prim = "pick" /\ held0 \notin {None, target} /\ pc # "pick_start") =>
        /\ result = "PRE_CONDITION_ERROR"
        /\ planner_calls = 0
        /\ emitted = <<>>

\* C8: for every target and task, a navigation to a target that is farther
\* than the threshold (in any direction) from where the preceding
\* navigation to it observed it raises PRE_CONDITION_ERROR and does not
\* call the base planner.
SqDist(a, b) ==
    (a[1] - b[1]) * (a[1] - b[1]) + (a[2] - b[2]) * (a[2] - b[2])
        + (a[3] - b[3]) * (a[3] - b[3])

C8_MovedTargetRejected ==
    [][ (pc = "nav_start" /\ nav_pos # NoPos
            /\ SqDist(obj_pos[target], nav_pos)
                   > moved_distance_threshold * moved_distance_threshold) =>
            (result' = "PRE_CONDITION_ERROR" /\ planner_calls' = 0) ]_vars

\* C9: a PLANNING_ERROR is raised exactly when the planner returned an
\* absent or empty required path (base plan; pre-approach path; interaction
\* path, which toggle only requires to be present), it names the target
\* object, and no command is emitted on such a plan.
C9_PlanningError ==
    /\ result = "PLANNING_ERROR" =>
          /\ planner_calls = 1
          /\ err_object = target
          /\ emitted = <<>>
          /\ CASE prim = "navigate" -> AbsentOrEmpty(base_plan)
               [] prim = "pick" ->
                      AbsentOrEmpty(pre_path) \/ AbsentOrEmpty(interaction_path)
               [] prim = "toggle" ->
                      AbsentOrEmpty(pre_path) \/ interaction_path.none
               [] OTHER -> FALSE
    /\ (prim = "navigate" /\ planner_calls = 1 /\ AbsentOrEmpty(base_plan)) =>
          (result = "PLANNING_ERROR" /\ emitted = <<>>)
    /\ (prim = "pick" /\ planner_calls = 1
          /\ (AbsentOrEmpty(pre_path) \/ AbsentOrEmpty(interaction_path))) =>
          (result = "PLANNING_ERROR" /\ emitted = <<>>)
    /\ (prim = "toggle" /\ planner_calls = 1
          /\ (AbsentOrEmpty(pre_path) \/ interaction_path.none)) =>
          (result = "PLANNING_ERROR" /\ emitted = <<>>)

C9_Witness ==
    /\ prim = "navigate"
    /\ result = "PLANNING_ERROR"
    /\ ~base_plan.none
    /\ err_object = "cabinet.n.01_1"

\* C10: pick and toggle fail with PLANNING_ERROR before any command when
\* the pre-approach path is absent or empty, the interaction path is
\* absent, or the interaction path is empty and its distance is not 0; in
\* every other case there is no PLANNING_ERROR and execution starts.
C10_ArmPathCheck ==
    (prim \in {"pick", "toggle"} /\ planner_calls = 1) =>
        LET distance == IF prim = "pick" THEN pre_grasping_distance
                                         ELSE pre_toggling_distance
            bad == \/ AbsentOrEmpty(pre_path)
                   \/ interaction_path.none
                   \/ (Len(interaction_path.wps) = 0 /\ distance # 0)
        IN IF bad
           THEN result = "PLANNING_ERROR" /\ emitted = <<>>
           ELSE /\ result # "PLANNING_ERROR"
                /\ Len(emitted) >= 1
                /\ emitted[1].phase = "pre_approach"

C10_Witness ==
    /\ prim = "toggle"
    /\ planner_calls = 1
    /\ ~AbsentOrEmpty(pre_path)
    /\ ~interaction_path.none
    /\ Len(interaction_path.wps) = 0
    /\ result # "PLANNING_ERROR"
    /\ Len(emitted) = 1

\* C11: in toggle (pre-toggling distance 0, no approach phase) an empty
\* path returned by the planner for the disabled phase is valid: the
\* primitive raises no error because of it and runs to completion.
C11_ToggleEmptyPathValid ==
    (/\ prim = "toggle"
     /\ planner_calls = 1
     /\ pre_toggling_distance = 0
     /\ ~pre_path.none /\ Len(pre_path.wps) > 0
     /\ ~interaction_path.none /\ Len(interaction_path.wps) = 0)
        => result \in {"running", "done"}

\* the path a call of _execute_ee_path iterates over, and its commands
EEWaypoints ==
    IF ee_call = "pick_retract"
    THEN [k \in 1..Len(interaction_path.wps) |->
             interaction_path.wps[Len(interaction_path.wps) + 1 - k]]
    ELSE interaction_path.wps
EECmds == PhaseCmds(ee_call)

\* C12: every command _execute_ee_path emits equals the still action
\* captured at entry except at the arm (the next waypoint of the path, in
\* order) and, only in the call made while grasping, at the gripper (-1);
\* commands and waypoints correspond one to one, and a call that does not
\* stop on contact emits one command for every waypoint.
C12_EEPathCommands ==
    [][ /\ (pc = "ee_loop" /\ emitted' # emitted) =>
              /\ out'.hold = ee_still.hold
              /\ out'.gripper = IF ee_call = "pick_retract"
                                THEN -1 ELSE ee_still.gripper
              /\ Len(EECmds) < Len(EEWaypoints)
              /\ out'.arm = EEWaypoints[Len(EECmds) + 1]
              /\ Len(EECmds') = Len(EECmds) + 1
        /\ (pc = "ee_loop" /\ pc' # "ee_loop" /\ ee_call = "pick_retract") =>
              Len(EECmds) = Len(EEWaypoints) ]_vars

C12_Witness ==
    /\ prim = "pick"
    /\ ee_call = "pick_retract"
    /\ pc = "pick_settle2"
    /\ Len(EECmds) = 2
    /\ EECmds[1].arm = 2 /\ EECmds[2].arm = 1
    /\ out.gripper = -1
    /\ out.hold = ee_still.hold
    /\ joint_pos # ee_still.hold

\* C13: every command a primitive emits, on every code path, holds the
\* robot's joint position at the position-controlled groups outside the
\* active group: the position current when the command is emitted, or the
\* position the preceding command of the stream already held.
C13_HoldsPosition ==
    [][ Len(emitted') > Len(emitted) =>
           \/ out'.hold = joint_pos
           \/ Len(emitted) > 0 /\ out'.hold = out.hold ]_vars

\* simulation ticks elapsed during the invocation: one per command the
\* consumer has applied, plus the steps the executor made itself
SimTicks == (Len(emitted) - (IF yielded THEN 1 ELSE 0)) + sim_steps

\* C14: with a consumer that advances the simulation once per drained
\* command, when a primitive's stream is exhausted the number of simulation
\* ticks elapsed equals the number of commands drained, for every primitive.
C14_OneTickPerCommand ==
    result = "done" => SimTicks = Len(emitted)

\* C15: in pick, whenever a command opens a new phase (interaction after
\* pre-approach, grasp after interaction, retreat after grasp, the final
\* still commands after retreat), the executor itself has advanced the
\* simulation by a positive number of steps since the preceding command.
C15_SettleBetweenPhases ==
    [][ (/\ prim = "pick"
         /\ Len(emitted) > 0
         /\ Len(emitted') = Len(emitted) + 1
         /\ emitted'[Len(emitted')].phase # emitted[Len(emitted)].phase) =>
            emitted'[Len(emitted')].steps > emitted[Len(emitted)].steps ]_vars

\* C16: for every action list of action_dict and every entry of it, apply
\* of the entry's index starts the handler registered for the entry's skill
\* id on the entry's object, and neither the handler lookup nor the
\* handler's lookup of its offset parameters fails with a missing key.
C16_DispatchNeverFails ==
    [][ /\ result' # "KeyError"
        /\ (pc = "idle" /\ pc' # "idle") =>
              \E k \in 1..Len(action_list(task)) :
                 /\ action_list(task)[k].obj = target'
                 /\ action_list(task)[k].skill \in DOMAIN controller_functions
                 /\ controller_functions[action_list(task)[k].skill] = prim'
      ]_vars

\* C17: the offset table is immutable: after construction for any task and
\* after any primitives, every entry is what the module defined, and every
\* navigate entry has the four fields (dx, dy, dz, target yaw).
C17_TableImmutable ==
    /\ offset_params = skill_object_offset_params
    /\ \A o \in DOMAIN offset_params[B1K_NAVIGATE_TO] :
           offset_params[B1K_NAVIGATE_TO][o] = Flat(4)

\* C18: for an object with identity orientation, the position pick hands
\* to the arm planner is the object's world position plus the (dx, dy, dz)
\* pick offset, component by component (the pumpkin at (1,0,0) with offset
\* (0,0,-0.1) gives (1,0,-0.1)), and computing it leaves the object's
\* stored pose as it was.
C18_PickTarget ==
    [][ (pick_place_pos' # pick_place_pos /\ pick_place_pos' # NoPos
            /\ obj_rot[target] = 0) =>
           /\ pick_place_pos'[1] = obj_pos[target][1] + pick_offset[target][1]
           /\ pick_place_pos'[2] = obj_pos[target][2] + pick_offset[target][2]
           /\ pick_place_pos'[3] = obj_pos[target][3] + pick_offset[target][3]
           /\ obj_pos' = obj_pos
           /\ obj_rot' = obj_rot ]_vars

C18_Witness ==
    /\ prim = "pick"
    /\ target = "pumpkin.n.02_1"
    /\ planner_calls = 1
    /\ obj_rot[target] = 0
    /\ obj_pos[target] = <<1, 0, 0>>
    /\ pick_place_pos = <<1, 0, -1>>

RetractCmds == PhaseCmds("pick_retract")

\* C20: pick's retreat reuses the interaction path without another planner
\* call: it emits the n planned interaction waypoints in reverse order, all
\* n of them, each with the gripper commanded closed (-1), whatever the
\* waypoint at which contact cut the forward interaction short.
C20_RetreatReversesPath ==
    (prim = "pick" /\ ee_call = "pick_retract") =>
        LET n == Len(interaction_path.wps)
        IN /\ planner_calls = 1
           /\ Len(RetractCmds) <= n
           /\ \A j \in 1..Len(RetractCmds) :
                 /\ RetractCmds[j].arm = interaction_path.wps[n + 1 - j]
                 /\ RetractCmds[j].gripper = -1
           /\ pc # "ee_loop" => Len(RetractCmds) = n

C20_Witness ==
    /\ prim = "pick"
    /\ ee_call = "pick_retract"
    /\ pc = "pick_settle2"
    /\ Len(interaction_path.wps) = 2
    /\ first_contact = 1
    /\ Len(PhaseCmds("pick_interaction")) = 1
    /\ Len(RetractCmds) = 2
    /\ RetractCmds[1].arm = 2 /\ RetractCmds[2].arm = 1

\* the place of each phase of pick in the order of its phases
PhaseRank(ph) ==
    CASE ph = "pre_approach" -> 1
      [] ph = "pick_interaction" -> 2
      [] ph = "grasp" -> 3
      [] ph = "pick_retract" -> 4
      [] ph = "pick_final" -> 5
      [] OTHER -> 0

C22_NoRetry ==
    [][ /\ planner_calls' <= 1
        /\ (grasp_outcome' = "running" /\ grasp_outcome # "running") =>
              grasp_outcome = "none"
        /\ Len(PhaseCmds("grasp")') + Len(PhaseCmds("ungrasp")') <= 9 ]_vars

C22_Witness ==
    /\ prim = "pick"
    /\ pc = "idle"
    /\ result = "EXECUTION_ERROR"
    /\ grasp_outcome = "raised"
    /\ planner_calls = 1
    /\ Len(PhaseCmds("grasp")) = 9

\* C23: cancellation is cooperative, with no rollback: when the consumer
\* stops draining a grasp or ungrasp sequence before all its gripper
\* commands are consumed, no error is raised and is_grasping keeps its
\* previous value from then on, whatever the host reports as held.
C23_CancelNoRollback ==
    [][ (grasp_outcome = "running" /\ grasp_outcome' = "running") =>
           /\ is_grasping' = is_grasping
           /\ result' \in {"running", "cancelled"} ]_vars

C23_Witness ==
    /\ prim = "pick"
    /\ result = "cancelled"
    /\ grasp_outcome = "running"
    /\ Len(PhaseCmds("grasp")) = 3
    /\ obj_in_hand # None
    /\ ~is_grasping

\* C24: push sets the target's joint_0 to its lower limit and pull sets it
\* to its upper limit minus one tenth; each then emits exactly 5 still
\* commands, never calls a planner and never raises a planning or execution
\* error; a push of a joint already at its lower limit leaves it there, and
\* so does a push after a pull.
C24_PushPullContract ==
    [][ /\ (pc = "pull_start" /\ pc' = "pull_loop") =>
              joint_0'[target] = upper_limit - 1
        /\ (pc = "push_start" /\ pc' = "push_loop") =>
              /\ joint_0'[target] = lower_limit
              /\ joint_0[target] = lower_limit => joint_0' = joint_0
        /\ (prim' = "push" /\ target' \in Articulated /\ pc' # "push_start") =>
              joint_0'[target'] = lower_limit
        /\ prim' \in {"pull", "push"} =>
              /\ planner_calls' = 0
              /\ result' \notin {"PLANNING_ERROR", "EXECUTION_ERROR"}
              /\ target' \in Articulated => result' \in {"running", "done"}
              /\ Len(emitted') <= 5
              /\ \A k \in 1..Len(emitted') :
                    /\ emitted'[k].arm = 0
                    /\ emitted'[k].gripper = IF is_grasping' THEN -1 ELSE 0
              /\ result' = "done" => Len(emitted') = 5 ]_vars

C24_Witness ==
    /\ prim = "pull"
    /\ result = "done"
    /\ Len(emitted) = 5
    /\ joint_0[target] = upper_limit - 1
    /\ joint_0[target] # lower_limit

\* C25: the ignore list navigate hands to the base planner holds exactly
\* the object in the hand when one is held, and is empty when none is,
\* whatever primitives and host changes came before.
C25_IgnoreHeldObject ==
    [][ (prim = "navigate" /\ planner_calls' = planner_calls + 1) =>
           objects_to_ignore' = IF obj_in_hand # None THEN <<obj_in_hand>>
                                                        ELSE <<>> ]_vars

\* C26: when the target's orientation is degenerate, navigate, pick and
\* toggle fail with an InvalidPoseError at the point where they would
\* rotate the offset, before the planner is invoked.
C26_DegenerateOrientation ==
    [][ (/\ pc \in {"nav_plan", "pick_plan", "toggle_start"}
         /\ pc' # pc
         /\ target \in DOMAIN offset_params[ParamsSkill[prim]]
         /\ obj_rot[target] = Degenerate) =>
           (result' = "InvalidPoseError" /\ planner_calls' = planner_calls) ]_vars

\* the most commands a primitive emits on planner paths of at most n
\* waypoints
CmdBound(p, n) ==
    CASE p = "navigate" -> 1
      [] p = "pick" -> 1 + n + 9 + n + 5
      [] p = "place" -> 9 + 10 + 5
      [] p = "toggle" -> 1 + n + n + 1
      [] p \in {"pull", "push"} -> 5
      [] p = "dummy" -> 1
      [] OTHER -> 0

\* C27: every primitive's command stream is finite: on planner paths of at
\* most MaxPath waypoints a primitive that is drained emits a bounded
\* number of commands (pick at most 1 + n + 9 + n + 5) and then ends, in
\* completion or in an error.
C27_FiniteStream ==
    /\ [](Len(emitted) <= CmdBound(prim, MaxPath))
    /\ (result = "running") ~> (pc = "idle" /\ result \notin {"none", "running"})

C27_Witness ==
    /\ prim = "pick"
    /\ result = "done"
    /\ Len(interaction_path.wps) = MaxPath
    /\ Len(emitted) = 1 + (MaxPath - 1) + 9 + MaxPath + 5

\* C28: button-event encoding round-trips: a 0/1 vector of the length of
\* the table converted to button data and back is the same vector; a list
\* of combos of the table converted to a vector and back is the distinct
\* combos of the list in table order; neither conversion fails, so no combo
\* is out of reach of VR_BUTTON_COMBO_NUM.
C28_ButtonRoundTrip ==
    /\ vr_pc \notin {"ValueError", "IndexError"}
    /\ vr_pc = "bin_done" => bin_events = bin_in
    /\ vr_pc = "list_done" =>
          button_press_data =
              SelectSeq(VR_BUTTON_COMBOS,
                        LAMBDA c : \E k \in 1..Len(bdata_in) : bdata_in[k] = c)

C28_Witness ==
    /\ vr_pc = "list_done"
    /\ bdata_in = << <<36, 1>>, <<0, 0>> >>
    /\ button_press_data = << <<0, 0>>, <<36, 1>> >>

\* C29: with t_min < t_max, calc_z_dropoff returns 1 for every theta above
\* t_max, 0 for every theta at or below t_min, and never less for a larger
\* theta.
C29_ZDropoff ==
    (vr_pc = "dropoff_done" /\ t_min < t_max) =>
        /\ theta > t_max => FracEq(z_mult, Frac(1, 1))
        /\ theta <= t_min => FracEq(z_mult, Frac(0, 1))
        /\ \A th \in Angles :
              th >= theta => FracLeq(z_mult, calc_z_dropoff(th, t_min, t_max))

\* C30: after load_vr_config, using_tracked_body is true only if
\* use_tracked_body is true and torso_tracker_serial is a usable serial
\* (neither None nor empty), whatever the device, OCULUS included.
C30_TrackedBody ==
    (vr_pc = "config_done" /\ settings.using_tracked_body) =>
        /\ settings.use_tracked_body
        /\ settings.torso_tracker_serial \notin {None, ""}

\* C31: for every action index i below num_discrete_action (the length of
\* the configured action list), apply(i) dispatches the i-th entry of the
\* list: the handler of the entry's skill id on the entry's object; so it
\* does for i = 10 when the list has more than 10 entries.
C31_DispatchIndex ==
    [][ \A k \in 0..(Len(action_list(task)) - 1) :
           (/\ action_list(task)[k + 1].skill \in DOMAIN controller_functions
            /\ ApplyIndex(k)) =>
               /\ prim' = controller_functions[action_list(task)[k + 1].skill]
               /\ target' = action_list(task)[k + 1].obj ]_vars

\* C32: when navigate, pick or toggle raises PLANNING_ERROR or
\* PRE_CONDITION_ERROR, it does so on the first drain, before any command
\* was emitted and any tick ran, and is_grasping and the object in the hand
\* are what they were when the primitive was invoked.
C32_EarlyErrors ==
    [][ (/\ prim \in {"navigate", "pick", "toggle"}
         /\ result = "running"
         /\ result' \in {"PLANNING_ERROR", "PRE_CONDITION_ERROR"}) =>
           /\ emitted' = <<>>
           /\ sim_steps' = 0
           /\ grasp_outcome' = "none"
           /\ is_grasping' = is_grasping
           /\ obj_in_hand' = held0 ]_vars

C32_Witness ==
    /\ prim = "pick"
    /\ result = "PRE_CONDITION_ERROR"
    /\ emitted = <<>>
    /\ is_grasping
    /\ pc = "idle"
    /\ held0 = None

\* the reasons of an ActionPrimitiveError
ErrorReasons == {"PLANNING_ERROR", "PRE_CONDITION_ERROR", "EXECUTION_ERROR"}

\* C33: a stream that raised an ActionPrimitiveError is over: the raise
\* keeps the commands emitted so far, and until another primitive is
\* invoked no command is added or removed and is_grasping is not touched
\* (no retreat, no release); after "No contact was made" in pick no grasp
\* and no retreat command was emitted.
C33_ErrorIsTerminal ==
    [][ /\ (result = "running" /\ result' \in ErrorReasons) =>
              (emitted' = emitted /\ out' = out /\ pc' = "idle" /\ ~yielded')
        /\ (result \in ErrorReasons /\ result' # "running") =>
              /\ result' = result
              /\ pc' = "idle"
              /\ emitted' = emitted
              /\ out' = out
              /\ is_grasping' = is_grasping
        /\ (prim' = "pick" /\ ee_outcome' = "raised") =>
              /\ result' = "EXECUTION_ERROR"
              /\ GraspCmds' = <<>>
              /\ RetractCmds' = <<>> ]_vars

C33_Witness ==
    /\ prim = "pick"
    /\ result = "EXECUTION_ERROR"
    /\ ee_outcome = "raised"
    /\ Len(interaction_path.wps) = 2
    /\ Len(emitted) = 3
    /\ obj_in_hand # None
    /\ pc = "idle"

\* what a step of _place leaves emitted, for n gripper-opening commands
PlaceContract(n) ==
    /\ (pc # "idle" /\ prim = "place" /\ held0 = None) =>
          /\ \A k \in 1..Len(emitted') :
                /\ emitted'[k].phase = "place_final"
                /\ emitted'[k].gripper # 1
          /\ result' \in {"running", "done"}
          /\ result' = "done" => Len(emitted') = 5
    /\ (pc # "idle" /\ prim = "place" /\ held0 # None) =>
          /\ Len(UngraspCmds') <= n
          /\ \A k \in 1..Len(emitted') :
                emitted'[k].phase # "ungrasp" =>
                   /\ k > n
                   /\ grasp_outcome' = "returned"
                   /\ ~is_grasping'
          /\ result' = "EXECUTION_ERROR" =>
                /\ Len(emitted') = n
                /\ Len(UngraspCmds') = n
                /\ obj_in_hand # None
                /\ is_grasping' = is_grasping
          /\ result' = "done" =>
                /\ Len(UngraspCmds') = n
                /\ Len(PhaseCmds("place_hold")') = 10
                /\ Len(PhaseCmds("place_final")') = 5
                /\ Len(emitted') = n + 15
                /\ ~is_grasping'
          /\ result' \in {"running", "done", "EXECUTION_ERROR"}

\* C34 (as amended): place with an empty hand emits exactly 5 still
\* commands, no gripper-opening command and raises no error; place with a
\* held object emits the 9 gripper-opening commands (5 with fast_execution),
\* then, only if the hand is then empty, 10 plus 5 still commands and ends
\* with is_grasping False; if the object is still held it raises
\* EXECUTION_ERROR right after the opening commands.
C34_Place ==
    [][PlaceContract(IF fast_execution THEN 5 ELSE 9)]_vars

C34_Witness ==
    /\ prim = "place"
    /\ held0 # None
    /\ result = "done"
    /\ fast_execution
    /\ Len(emitted) = 20
    /\ ~is_grasping

\* C34 (as stated): the same with 9 gripper-opening commands in every case.
C34_PlaceFixedNine ==
    [][PlaceContract(9)]_vars

\* C35: _execute_ee_path with stop_on_contact=True on an empty path emits
\* no command and raises EXECUTION_ERROR, also when a gripper contact is
\* present at entry.
C35_EmptyPathRaises ==
    [][ (/\ pc = "ee_loop"
         /\ ~yielded
         /\ ee_call \in {"pick_interaction", "toggle_interaction"}
         /\ Len(interaction_path.wps) = 0
         /\ pc' # pc) =>
           /\ result' = "EXECUTION_ERROR"
           /\ ee_outcome' = "raised"
           /\ emitted' = emitted
           /\ PhaseCmds(ee_call)' = <<>> ]_vars

C35_Witness ==
    /\ prim = "toggle"
    /\ ee_call = "toggle_interaction"
    /\ Len(interaction_path.wps) = 0
    /\ first_contact = 0
    /\ ee_outcome = "raised"
    /\ result = "EXECUTION_ERROR"
    /\ Len(emitted) = 1

\* the phases whose commands are still commands (no arm waypoint, no
\* gripper closing or opening of _execute_grasp / _execute_ungrasp)
StillPhases ==
    {"navigate", "pre_approach", "pick_already", "pick_final", "place_hold",
     "place_final", "toggle_final", "pull", "push", "dummy"}

\* C36: every still command has the gripper commanded closed (-1) if and
\* only if is_grasping is true when it is emitted; so while is_grasping
\* stays true (from a confirmed grasp to the next confirmed ungrasp) every
\* still command of every primitive keeps the gripper closed.
C36_StillGripper ==
    [][ (/\ Len(emitted') > Len(emitted)
         /\ emitted'[Len(emitted')].phase \in StillPhases) =>
           (emitted'[Len(emitted')].gripper = -1 <=> is_grasping') ]_vars

SharesBody ==
    \E k \in 1..Len(water_source_objs) :
        \E particle \in water_source_objs[k] :
            Touches(particle, contact_points)

\* C38: _update is monotone and exact: it never turns the value from True
\* to False, it makes the value True when some active particle of some
\* water source shares a body id with the object's current contacts, and it
\* leaves the value as it is when there is no such particle.
C38_UpdateMonotone ==
    [][ SoakedUpdate => (value' = (value \/ SharesBody)) ]_vars

\* C39: the state read back from the serialized form of a dumped state is
\* that dumped state, with a consumed length of 1, for both values; and
\* loading the state read back gives the value that was dumped.
C39_RoundTrip ==
    [][ /\ deserialized' # <<>> => deserialized' = <<dumped'[1], 1>>
        /\ (soaked_op' = "_load_state" /\ deserialized # <<>>) =>
               value' = dumped[1].soaked ]_vars

C39_Witness ==
    /\ soaked_op = "_load_state"
    /\ deserialized = <<[soaked |-> TRUE], 1>>
    /\ serialized = <<1>>
    /\ value = TRUE

====
